---- MODULE Spec2Model ----
(***************************************************************************)
(* Website auditor (handler, extractResources, the five analyzers and the  *)
(* weighted total) of src/unnamed/part_001.                                *)
(*                                                                         *)
(* Text model.  The fetched body `html` is a sequence of tokens: a token   *)
(* is either a tag  <name a="v" b ...>  (name, ordered attributes, each    *)
(* with a name, a value and whether it carries ="..."), or a run of text   *)
(* (a string followed by `pad` filler blanks).  Render gives the           *)
(* characters of a token; every regular expression of the source is        *)
(* evaluated on those characters (substring tests) or on the ordered       *)
(* attributes (captures and attribute order).  All letters are lower case, *)
(* so the /i flag of the source's patterns is not exercised.  Messages     *)
(* are the source's, with non-ASCII letters transliterated.                *)
(***************************************************************************)
EXTENDS Integers, Sequences, FiniteSets, TLC

\* ------------------------------------------------------------------------
\* JavaScript values and string primitives
\* ------------------------------------------------------------------------

\* null / undefined where a string is expected
Null == "<null>"

\* null where a number is expected (a failed match in extractResources)
NoNumber == -1

Max(a, b) == IF a >= b THEN a ELSE b

Min(a, b) == IF a <= b THEN a ELSE b

\* String.prototype.startsWith
StartsWith(s, p) == Len(s) >= Len(p) /\ SubSeq(s, 1, Len(p)) = p

\* s.includes(sub)  /  /sub/.test(s) for a literal pattern
Contains(s, sub) ==
    \/ sub = ""
    \/ \E i \in 1..(Len(s) - Len(sub) + 1) : SubSeq(s, i, i + Len(sub) - 1) = sub

\* positions where the literal sub starts in s
IndexesOf(s, sub) ==
    {i \in 1..(Len(s) - Len(sub) + 1) : SubSeq(s, i, i + Len(sub) - 1) = sub}

CharAt(s, i) == IF i >= 1 /\ i <= Len(s) THEN SubSeq(s, i, i) ELSE ""

Digits == {"0", "1", "2", "3", "4", "5", "6", "7", "8", "9"}

DigitVal(c) ==
    CASE c = "0" -> 0 [] c = "1" -> 1 [] c = "2" -> 2 [] c = "3" -> 3
      [] c = "4" -> 4 [] c = "5" -> 5 [] c = "6" -> 6 [] c = "7" -> 7
      [] c = "8" -> 8 [] c = "9" -> 9

\* \s of the source's patterns
IsSpace(c) == c \in {" ", "\n", "\t"}

\* index of the first character at or after i that is not white space
RECURSIVE SkipSpace(_, _)
SkipSpace(s, i) == IF IsSpace(CharAt(s, i)) THEN SkipSpace(s, i + 1) ELSE i

\* number of consecutive digits starting at i: the extent of \d+
RECURSIVE DigitRun(_, _)
DigitRun(s, i) == IF CharAt(s, i) \in Digits THEN 1 + DigitRun(s, i + 1) ELSE 0

\* parseInt of the n digits starting at i
RECURSIVE ParseDigits(_, _, _)
ParseDigits(s, i, n) ==
    IF n = 0 THEN 0
    ELSE 10 * ParseDigits(s, i, n - 1) + DigitVal(CharAt(s, i + n - 1))

\* String.prototype.trim
RECURSIVE TrimLeft(_)
TrimLeft(s) ==
    IF Len(s) > 0 /\ IsSpace(CharAt(s, 1)) THEN TrimLeft(SubSeq(s, 2, Len(s))) ELSE s

RECURSIVE TrimRight(_)
TrimRight(s) ==
    IF Len(s) > 0 /\ IsSpace(CharAt(s, Len(s)))
    THEN TrimRight(SubSeq(s, 1, Len(s) - 1)) ELSE s

Trim(s) == TrimRight(TrimLeft(s))

\* q[lo] + ... + q[hi], by halves
RECURSIVE SumRange(_, _, _)
SumRange(q, lo, hi) ==
    IF lo > hi THEN 0
    ELSE IF lo = hi THEN q[lo]
    ELSE SumRange(q, lo, (lo + hi) \div 2) + SumRange(q, (lo + hi) \div 2 + 1, hi)

SumSeq(q) == SumRange(q, 1, Len(q))

\* the strings q[lo] ... q[hi] joined, by halves
RECURSIVE ConcatRange(_, _, _)
ConcatRange(q, lo, hi) ==
    IF lo > hi THEN ""
    ELSE IF lo = hi THEN q[lo]
    ELSE ConcatRange(q, lo, (lo + hi) \div 2)
         \o ConcatRange(q, (lo + hi) \div 2 + 1, hi)

ConcatAll(q) == ConcatRange(q, 1, Len(q))

\* the sequences q[lo] ... q[hi] joined, by halves
RECURSIVE FlattenRange(_, _, _)
FlattenRange(q, lo, hi) ==
    IF lo > hi THEN <<>>
    ELSE IF lo = hi THEN q[lo]
    ELSE FlattenRange(q, lo, (lo + hi) \div 2)
         \o FlattenRange(q, (lo + hi) \div 2 + 1, hi)

Flatten(q) == FlattenRange(q, 1, Len(q))

\* array.filter(pred).length
CountIf(q, Pred(_)) == Len(SelectSeq(q, Pred))

Map(q, F(_)) == [k \in 1..Len(q) |-> F(q[k])]

\* the element of a set of one element: { e : v \in {value} } names a value
\* that is computed once
Only(S) == CHOOSE v \in S : TRUE

\* n copies of x in a row
Rep(n, x) == [k \in 1..n |-> x]

\* ------------------------------------------------------------------------
\* Tokens of the fetched text
\* ------------------------------------------------------------------------

\* attribute  name="value"  (q = TRUE) or the bare attribute  name  (q = FALSE)
Attr(n, v) == [n |-> n, v |-> v, q |-> TRUE]

BareAttr(n) == [n |-> n, v |-> "", q |-> FALSE]

\* <name attrs>
Tag(name, attrs) == [tag |-> name, attrs |-> attrs, text |-> "", pad |-> 0]

\* text followed by pad blanks
Text(s, pad) == [tag |-> "", attrs |-> <<>>, text |-> s, pad |-> pad]

IsTag(tok) == tok.tag # ""

RenderAttr(a) == IF a.q THEN " " \o a.n \o "=\"" \o a.v \o "\"" ELSE " " \o a.n

\* the characters of a token, filler blanks excluded
Render(tok) ==
    IF IsTag(tok)
    THEN "<" \o tok.tag \o ConcatAll(Map(tok.attrs, RenderAttr)) \o ">"
    ELSE tok.text

\* html.length
HtmlLength(html) ==
    SumSeq([k \in 1..Len(html) |-> Len(Render(html[k])) + html[k].pad])

\* /<name[^>]*>/ on one token: the token is a tag whose text starts with <name
TagIs(tok, name) == IsTag(tok) /\ StartsWith(tok.tag, name)

\* html.match(/<name[^>]*>/gi) || []
TagsOf(html, name) == SelectSeq(html, LAMBDA tok : TagIs(tok, name))

\* /literal/.test(html) for a literal without < and >: it lies inside one token
HtmlContains(html, sub) == \E k \in 1..Len(html) : Contains(Render(html[k]), sub)

\* /name=["']value["']/ inside a tag
HasAttrValue(tok, n, v) ==
    IsTag(tok) /\ Contains(Render(tok), n \o "=\"" \o v \o "\"")

\* /name=/ inside a tag
HasAttrAssign(tok, n) == IsTag(tok) /\ Contains(Render(tok), n \o "=")

EndsWith(s, p) == Len(s) >= Len(p) /\ SubSeq(s, Len(s) - Len(p) + 1, Len(s)) = p

\* the attribute text  n="..."  (the pattern's name may be the tail of a longer name)
AttrNamed(a, n) == a.q /\ EndsWith(a.n, n)

\* tag.match(/name=["']([^"']+)["']/): the first attribute text  name="v"
\* with v not empty, the name possibly the tail of a longer attribute name
RECURSIVE FirstValue(_, _)
FirstValue(attrs, n) ==
    IF attrs = <<>> THEN Null
    ELSE LET a == Head(attrs) IN
         IF AttrNamed(a, n) /\ a.v # ""
         THEN a.v
         ELSE FirstValue(Tail(attrs), n)

\* the same with ([^"']*): an empty value matches
RECURSIVE FirstValueOrEmpty(_, _)
FirstValueOrEmpty(attrs, n) ==
    IF attrs = <<>> THEN Null
    ELSE LET a == Head(attrs) IN
         IF AttrNamed(a, n)
         THEN a.v
         ELSE FirstValueOrEmpty(Tail(attrs), n)

\* the capture of  /<tag[^>]*n1=["']v1["'][^>]*n2=["']([^"']+)["']/  on one tag
\* (nonEmpty) or of the same pattern with ([^"']*): both [^>]* are greedy, so
\* the capture is the last n2 attribute that some n1="v1" precedes
OrderedCapture(attrs, n1, v1, n2, nonEmpty) ==
    LET firsts == {i \in 1..Len(attrs) : AttrNamed(attrs[i], n1) /\ attrs[i].v = v1}
        seconds == {j \in 1..Len(attrs) :
                       /\ AttrNamed(attrs[j], n2)
                       /\ (nonEmpty => attrs[j].v # "")
                       /\ \E i \in firsts : i < j}
    IN IF seconds = {} THEN Null
       ELSE attrs[CHOOSE j \in seconds : \A k \in seconds : k <= j].v

\* the capture of  /<tag[^>]*n2=["']([^"']*)["'][^>]*n1=["']v1["']/  on one tag:
\* the last n2 attribute that some n1="v1" follows
ReverseCapture(attrs, n2, n1, v1) ==
    LET lasts == {i \in 1..Len(attrs) : AttrNamed(attrs[i], n1) /\ attrs[i].v = v1}
        firsts == {j \in 1..Len(attrs) :
                       AttrNamed(attrs[j], n2) /\ \E i \in lasts : j < i}
    IN IF firsts = {} THEN Null
       ELSE attrs[CHOOSE j \in firsts : \A k \in firsts : k <= j].v

\* Math.round(a / b) for a >= 0, b > 0
RoundDiv(a, b) == (2 * a + b) \div (2 * b)

\* ------------------------------------------------------------------------
\* new URL(text)
\* ------------------------------------------------------------------------

Letters ==
    {"a", "b", "c", "d", "e", "f", "g", "h", "i", "j", "k", "l", "m",
     "n", "o", "p", "q", "r", "s", "t", "u", "v", "w", "x", "y", "z"}

SchemeChars == Letters \cup Digits \cup {"+", "-", "."}

SpecialSchemes == {"http", "https", "ftp", "ws", "wss"}

\* characters a host may not hold
ForbiddenHostChars == {" ", "<", ">", "\"", "{", "}", "|", "^", "#", "%", "@"}

\* number of consecutive characters of s from position i that are in set
RECURSIVE RunIn(_, _, _)
RunIn(s, i, set) ==
    IF i <= Len(s) /\ CharAt(s, i) \in set THEN 1 + RunIn(s, i + 1, set) ELSE 0

\* number of consecutive characters of s from position i that are not in set
RECURSIVE RunNotIn(_, _, _)
RunNotIn(s, i, set) ==
    IF i <= Len(s) /\ CharAt(s, i) \notin set THEN 1 + RunNotIn(s, i + 1, set) ELSE 0

\* The URL parser on the absolute-URL forms the model uses: a scheme, and for
\* a special scheme a non-empty host.  ok = FALSE is the TypeError of new URL.
ParseURL(text) ==
    LET s == Trim(text)
        n == RunIn(s, 1, SchemeChars)
        hasScheme == n >= 1 /\ CharAt(s, 1) \in Letters /\ CharAt(s, n + 1) = ":"
        scheme == SubSeq(s, 1, n)
        slashes == RunIn(s, n + 2, {"/", "\\"})
        hostStart == n + 2 + slashes
        hostLen == RunNotIn(s, hostStart, {"/", "\\", "?", "#", ":"})
        host == SubSeq(s, hostStart, hostStart + hostLen - 1)
        badHost == \E k \in 1..Len(host) : CharAt(host, k) \in ForbiddenHostChars
        invalid == [ok |-> FALSE, protocol |-> "", hostname |-> ""]
    IN IF ~hasScheme THEN invalid
       ELSE IF scheme \in SpecialSchemes
            THEN IF hostLen = 0 \/ badHost THEN invalid
                 ELSE [ok |-> TRUE, protocol |-> scheme \o ":", hostname |-> host]
            ELSE [ok |-> TRUE, protocol |-> scheme \o ":",
                  hostname |-> IF slashes = 2 /\ ~badHost THEN host ELSE ""]

\* the characters of the whole body, filler blanks included only as length
HtmlText(html) == ConcatAll(Map(html, Render))

\* ------------------------------------------------------------------------
\* extractResources
\* ------------------------------------------------------------------------

\* match[1] of /<script[^>]*(?:src=["']([^"']+)["'])?[^>]*>/ on one script tag.
\* The first [^>]* is greedy: it takes every character up to the closing >,
\* and the optional group is then tried at what is left of the tag.
ScriptSrcCapture(tok) ==
    LET text == Render(tok)
        inner == SubSeq(text, Len("<script") + 1, Len(text) - 1)
        taken == Len(inner)
        left == SubSeq(inner, taken + 1, Len(inner))
        valueLen == RunNotIn(left, Len("src=\"") + 1, {"\"", "'"})
    IN IF StartsWith(left, "src=\"") /\ valueLen > 0
          /\ CharAt(left, Len("src=\"") + valueLen + 1) = "\""
       THEN SubSeq(left, Len("src=\"") + 1, Len("src=\"") + valueLen)
       ELSE Null

ScriptRef(tok) ==
    LET src == ScriptSrcCapture(tok) IN
    [src |-> src,
     isInline |-> src = Null,
     isAsync |-> Contains(Render(tok), "async"),
     isDefer |-> Contains(Render(tok), "defer"),
     isModule |-> HasAttrValue(tok, "type", "module")]

\* /<link[^>]*rel=["']stylesheet["'][^>]*href=["']([^"']+)["'][^>]*>/
IsStylesheetLink(tok) ==
    TagIs(tok, "link") /\ OrderedCapture(tok.attrs, "rel", "stylesheet", "href", TRUE) # Null

StylesheetRef(tok) ==
    [href |-> OrderedCapture(tok.attrs, "rel", "stylesheet", "href", TRUE),
     isPreload |-> HasAttrValue(tok, "rel", "preload")]

\* The fields of an ImageRef that the source computes as  m && test  are null
\* or a boolean; only their truthiness is read, and the model keeps that.

\* tag.match(/name=["']?(\d+)/): the digits an attribute value starts with
RECURSIVE FirstNumber(_, _)
FirstNumber(attrs, n) ==
    IF attrs = <<>> THEN NoNumber
    ELSE LET a == Head(attrs) IN
         IF AttrNamed(a, n) /\ DigitRun(a.v, 1) > 0
         THEN ParseDigits(a.v, 1, DigitRun(a.v, 1))
         ELSE FirstNumber(Tail(attrs), n)

ImageRef(tok) ==
    LET src == FirstValue(tok.attrs, "src")
        alt == FirstValueOrEmpty(tok.attrs, "alt")
        width == FirstNumber(tok.attrs, "width")
        height == FirstNumber(tok.attrs, "height")
        loading == FirstValue(tok.attrs, "loading")
    IN [src |-> src,
        hasAlt |-> alt # Null,
        altText |-> alt,
        hasEmptyAlt |-> alt # Null /\ alt = "",
        hasDimensions |-> width # NoNumber /\ height # NoNumber,
        width |-> width,
        height |-> height,
        hasLazyLoading |-> loading # Null /\ loading = "lazy",
        hasSrcset |-> Contains(Render(tok), "srcset="),
        isWebP |-> src # Null /\ Contains(src, ".webp"),
        isAvif |-> src # Null /\ Contains(src, ".avif"),
        isModernFormat |->
            src # Null /\ (Contains(src, ".webp") \/ Contains(src, ".avif"))]

IframeRef(tok) ==
    [src |-> FirstValue(tok.attrs, "src"),
     hasLazyLoading |-> HasAttrValue(tok, "loading", "lazy")]

extractResources(html) ==
    [scripts |-> Map(TagsOf(html, "script"), ScriptRef),
     stylesheets |-> Map(SelectSeq(html, IsStylesheetLink), StylesheetRef),
     images |-> Map(TagsOf(html, "img"), ImageRef),
     fonts |-> <<>>,
     iframes |-> Map(TagsOf(html, "iframe"), IframeRef)]


\* ------------------------------------------------------------------------
\* Findings and the running score of an analyzer
\* ------------------------------------------------------------------------

\* An analyzer is a row of checks.  Each check yields what it does to the
\* running score and to the two lists, as a sequence of events: none, one or
\* two of them.

\* a check that deducts nothing and reports nothing
None == <<>>

\* score -= penalty; issues.push({ severity, message })
Issue(penalty, severity, message) ==
    <<[push |-> "issues", penalty |-> penalty, severity |-> severity,
       message |-> message]>>

\* details.push({ type: 'success', message })
Success(message) ==
    <<[push |-> "details", penalty |-> 0, severity |-> "", message |-> message]>>

\* let score = 100; const details = []; const issues = []; and then the
\* checks in their order: the running score and the two lists at the return
\* pushed holds every object pushed to either list, in the order of the pushes
Run(checks) ==
    Only({[score |-> 100 - SumSeq([k \in 1..Len(events) |-> events[k].penalty]),
           details |-> Map(SelectSeq(events, LAMBDA e : e.push = "details"),
                           LAMBDA e : [type |-> "success", message |-> e.message]),
           issues |-> Map(SelectSeq(events, LAMBDA e : e.push = "issues"),
                          LAMBDA e : [severity |-> e.severity, message |-> e.message]),
           pushed |-> Map(events,
                          LAMBDA e : IF e.push = "details"
                                     THEN [type |-> "success", message |-> e.message]
                                     ELSE [severity |-> e.severity,
                                           message |-> e.message])]
          : events \in {Flatten(checks)}})

\* a plausible slip: only the upper limit is applied
ClampAbove(score) == Min(100, score)

\* Math.max(0, Math.min(100, score)), the score every analyzer returns
Clamp(score) == Max(0, Min(100, score))

\* a JavaScript string used as a condition
Truthy(str) == str # Null /\ str # ""

\* ------------------------------------------------------------------------
\* analyzePerformance
\* ------------------------------------------------------------------------

\* The matches of /<name[^>]*>([\s\S]*?)<\/name>/gi, left to right: each is an
\* opening tag and the first closing tag after it, as <<first, last>> token
\* indexes; the scan resumes after token base
RECURSIVE PairedMatches(_, _, _)
PairedMatches(html, name, base) ==
    LET openers == {i \in (base + 1)..Len(html) : TagIs(html[i], name)} IN
    IF openers = {} THEN <<>>
    ELSE LET i == CHOOSE o \in openers : \A p \in openers : o <= p
             closers == {j \in (i + 1)..Len(html) :
                            Render(html[j]) = "</" \o name \o ">"}
         IN IF closers = {} THEN <<>>
            ELSE LET j == CHOOSE c \in closers : \A d \in closers : c <= d IN
                 <<(<<i, j>>)>> \o PairedMatches(html, name, j)

\* estimateInlineCSS: the total length of the <style>...</style> matches
estimateInlineCSS(html) ==
    LET matches == PairedMatches(html, "style", 0) IN
    SumSeq([k \in 1..Len(matches) |->
               HtmlLength(SubSeq(html, matches[k][1], matches[k][2]))])

CriticalWords == {"body", "html", "header", "nav", "hero", "main"}

\* /<style[^>]*>[\s\S]*?(body|html|header|nav|hero|main)/i.test(html)
hasCriticalCSS(html) ==
    \E i \in 1..Len(html) :
        /\ TagIs(html[i], "style")
        /\ \E j \in (i + 1)..Len(html) :
              \E w \in CriticalWords : Contains(Render(html[j]), w)

\* /<link[^>]*rel=["']value["']/i.test(html)
HasLinkRel(html, value) ==
    \E k \in 1..Len(html) : TagIs(html[k], "link") /\ HasAttrValue(html[k], "rel", value)

\* the filter callback of thirdPartyScripts evaluates new URL(html) for every
\* script with a src that does not start with /
ReachesNewURL(s) == Truthy(s.src) /\ ~StartsWith(s.src, "/")

\* new URL(html) throws inside analyzePerformance
analyzePerformanceThrows(responseTime, html, resources) ==
    /\ \E k \in 1..Len(resources.scripts) : ReachesNewURL(resources.scripts[k])
    /\ ~ParseURL(HtmlText(html)).ok

\* The body of analyzePerformance up to its return statement: the running
\* score with the findings, and the metrics
performanceChecks(responseTime, html, resources) ==
    LET \* TTFB / response time
        s1 == IF responseTime > 3000
              THEN Issue(25, "critical", "Veldig treg server-respons: "
                     \o ToString(responseTime) \o "ms (bor vaere under 600ms)")
              ELSE IF responseTime > 1500
              THEN Issue(15, "warning", "Treg server-respons: "
                     \o ToString(responseTime) \o "ms (bor vaere under 600ms)")
              ELSE IF responseTime > 600
              THEN Issue(8, "info", "Server-respons kan forbedres: "
                     \o ToString(responseTime) \o "ms")
              ELSE Success("Rask server-respons: " \o ToString(responseTime) \o "ms")
        \* HTML document size
        htmlSize == HtmlLength(html)
        htmlSizeKB == RoundDiv(htmlSize, 1024)
        s2 == IF htmlSize > 500000
              THEN Issue(15, "critical", "HTML-dokumentet er for stort: "
                     \o ToString(htmlSizeKB) \o "KB (bor vaere under 100KB)")
              ELSE IF htmlSize > 200000
              THEN Issue(10, "warning", "HTML-dokumentet er stort: "
                     \o ToString(htmlSizeKB) \o "KB")
              ELSE IF htmlSize > 100000
              THEN Issue(5, "info", "HTML-dokumentet er litt stort: "
                     \o ToString(htmlSizeKB) \o "KB")
              ELSE None
        \* JavaScript
        totalScripts == Len(resources.scripts)
        blockingScripts ==
            CountIf(resources.scripts,
                    LAMBDA s : ~s.isInline /\ ~s.isAsync /\ ~s.isDefer)
        s3 == IF blockingScripts > 5
              THEN Issue(12, "critical", ToString(blockingScripts)
                     \o " render-blokkerende scripts (bruk async/defer)")
              ELSE IF blockingScripts > 2
              THEN Issue(6, "warning", ToString(blockingScripts)
                     \o " render-blokkerende scripts")
              ELSE None
        s4 == IF totalScripts > 25
              THEN Issue(8, "warning", "For mange scripts: "
                     \o ToString(totalScripts) \o " (bor konsolideres)")
              ELSE IF totalScripts > 15
              THEN Issue(4, "info", "Mange scripts: " \o ToString(totalScripts))
              ELSE None
        \* CSS
        externalStylesheets == Len(resources.stylesheets)
        inlineStyleCount == Len(TagsOf(html, "style"))
        inlineCSSSize == estimateInlineCSS(html)
        s5 == IF externalStylesheets > 8
              THEN Issue(8, "warning", "For mange CSS-filer: "
                     \o ToString(externalStylesheets) \o " (bor kombineres)")
              ELSE IF externalStylesheets > 4
              THEN Issue(4, "info", "Flere CSS-filer: "
                     \o ToString(externalStylesheets))
              ELSE None
        s6 == IF inlineCSSSize > 50000
              THEN Issue(7, "warning", "Mye inline CSS ("
                     \o ToString(RoundDiv(inlineCSSSize, 1024))
                     \o "KB) - bor flyttes til eksterne filer")
              ELSE None
        \* images
        images == resources.images
        imagesWithoutDimensions == CountIf(images, LAMBDA i : ~i.hasDimensions)
        \* images.indexOf(i) > 2: the image is the 4th or a later one
        imagesWithoutLazyLoad ==
            Cardinality({k \in 1..Len(images) : ~images[k].hasLazyLoading /\ k - 1 > 2})
        imagesWithoutModernFormat ==
            CountIf(images, LAMBDA i : Truthy(i.src) /\ ~i.isModernFormat)
        imagesWithoutSrcset == CountIf(images, LAMBDA i : ~i.hasSrcset)
        s7 == IF Len(images) > 0 /\ imagesWithoutDimensions > 3
              THEN Issue(6, "warning", ToString(imagesWithoutDimensions)
                     \o " bilder mangler width/height (forarsaker layout shift)")
              ELSE None
        s8 == IF Len(images) > 0 /\ imagesWithoutLazyLoad > 5
              THEN Issue(5, "warning", ToString(imagesWithoutLazyLoad)
                     \o " bilder under fold mangler lazy loading")
              ELSE None
        s9 == IF Len(images) > 0 /\ imagesWithoutModernFormat > 5 /\ Len(images) > 3
              THEN Issue(5, "info", ToString(imagesWithoutModernFormat)
                     \o " bilder bruker ikke moderne formater (WebP/AVIF)")
              ELSE None
        s10 == IF Len(images) > 0 /\ imagesWithoutSrcset > 5 /\ Len(images) > 3
               THEN Issue(4, "info", ToString(imagesWithoutSrcset)
                      \o " bilder mangler responsive srcset")
               ELSE None
        \* critical rendering path
        hasPreconnect == HasLinkRel(html, "preconnect")
        hasDNSPrefetch == HasLinkRel(html, "dns-prefetch")
        s11 == IF ~hasCriticalCSS(html) /\ externalStylesheets > 0
               THEN Issue(3, "info",
                          "Mangler kritisk inline CSS for raskere first paint")
               ELSE None
        s12 == IF ~hasPreconnect /\ ~hasDNSPrefetch
               THEN Issue(2, "info",
                          "Mangler preconnect/dns-prefetch for tredjepartsressurser")
               ELSE None
        \* third-party resources
        hostname == ParseURL(HtmlText(html)).hostname
        thirdPartyScripts ==
            CountIf(resources.scripts,
                    LAMBDA s : ReachesNewURL(s) /\ ~Contains(s.src, hostname))
        s13 == IF thirdPartyScripts > 10
               THEN Issue(5, "warning", "Mange tredjepartscripts: "
                      \o ToString(thirdPartyScripts) \o " (pavirker ytelse)")
               ELSE None
        \* iframes
        iframesWithoutLazy == CountIf(resources.iframes, LAMBDA i : ~i.hasLazyLoading)
        s14 == IF iframesWithoutLazy > 0
               THEN Issue(3, "info", ToString(iframesWithoutLazy)
                      \o " iframes mangler lazy loading")
               ELSE None
    IN [state |-> Run(<<s1, s2, s3, s4, s5, s6, s7, s8,
                         s9, s10, s11, s12, s13, s14>>),
        metrics |-> [responseTime |-> responseTime,
                     htmlSize |-> htmlSizeKB,
                     totalScripts |-> totalScripts,
                     blockingScripts |-> blockingScripts,
                     totalStylesheets |-> externalStylesheets + inlineStyleCount,
                     totalImages |-> Len(images)]]

\* the return statement of analyzePerformance
analyzePerformance(responseTime, html, resources) ==
    Only({[score |-> Clamp(run.state.score),
           details |-> run.state.details \o run.state.issues,
           metrics |-> run.metrics]
          : run \in {performanceChecks(responseTime, html, resources)}})


\* ------------------------------------------------------------------------
\* analyzeSEO
\* ------------------------------------------------------------------------

\* n blanks, by doubling
RECURSIVE Blanks(_)
Blanks(n) ==
    IF n = 0 THEN ""
    ELSE LET half == Blanks(n \div 2) IN
         half \o half \o (IF n % 2 = 1 THEN " " ELSE "")

\* the characters of the tokens first..last, filler blanks included
TextBetween(html, first, last) ==
    ConcatAll([k \in 1..(last - first + 1) |->
                  Render(html[first + k - 1]) \o Blanks(html[first + k - 1].pad)])

\* index of the first token that satisfies P, 0 when there is none
FirstIndex(html, P(_)) ==
    LET hits == {k \in 1..Len(html) : P(html[k])} IN
    IF hits = {} THEN 0 ELSE CHOOSE k \in hits : \A m \in hits : k <= m

\* titleMatch[1] of html.match(/<title[^>]*>([\s\S]*?)<\/title>/i), or Null
TitleCapture(html) ==
    LET matches == PairedMatches(html, "title", 0) IN
    IF matches = <<>> THEN Null
    ELSE TextBetween(html, matches[1][1] + 1, matches[1][2] - 1)

\* descMatch[1]: name before content, or else content before name
DescriptionOf(tok) ==
    IF ~TagIs(tok, "meta") THEN Null
    ELSE OrderedCapture(tok.attrs, "name", "description", "content", FALSE)

DescriptionReversedOf(tok) ==
    IF ~TagIs(tok, "meta") THEN Null
    ELSE ReverseCapture(tok.attrs, "content", "name", "description")

\* a plausible slip: only the second pattern, content before name, is tried
DescriptionCaptureReversedOnly(html) ==
    LET j == FirstIndex(html, LAMBDA tok : DescriptionReversedOf(tok) # Null) IN
    IF j # 0 THEN DescriptionReversedOf(html[j]) ELSE Null

DescriptionCapture(html) ==
    LET i == FirstIndex(html, LAMBDA tok : DescriptionOf(tok) # Null)
        j == FirstIndex(html, LAMBDA tok : DescriptionReversedOf(tok) # Null)
    IN IF i # 0 THEN DescriptionOf(html[i])
       ELSE IF j # 0 THEN DescriptionReversedOf(html[j])
       ELSE Null

\* html.match(/<meta[^>]*n=["']v["']/i) is not null
HasMeta(html, n, v) ==
    \E k \in 1..Len(html) : TagIs(html[k], "meta") /\ HasAttrValue(html[k], n, v)

\* robotsMeta[1] of /<meta[^>]*name=["']robots["'][^>]*content=["']([^"']+)["']/i
RobotsOf(tok) ==
    IF ~TagIs(tok, "meta") THEN Null
    ELSE OrderedCapture(tok.attrs, "name", "robots", "content", TRUE)

RobotsCapture(html) ==
    LET i == FirstIndex(html, LAMBDA tok : RobotsOf(tok) # Null) IN
    IF i = 0 THEN Null ELSE RobotsOf(html[i])

\* /<a[^>]*href=["']\/[^"']*["']/ on one tag
IsInternalLink(tok) ==
    /\ TagIs(tok, "a")
    /\ \E k \in 1..Len(tok.attrs) :
          AttrNamed(tok.attrs[k], "href") /\ StartsWith(tok.attrs[k].v, "/")

\* The body of analyzeSEO up to its return statement
seoChecks(html, parsedUrl) ==
    LET \* title tag
        titleText == TitleCapture(html)
        title == Trim(titleText)
        s1 == IF titleText = Null
              THEN Issue(15, "critical", "Mangler title-tag")
              ELSE LET t1 == IF Len(title) < 10
                             THEN Issue(10, "warning", "Title er for kort: "
                                    \o ToString(Len(title)) \o " tegn (anbefalt 50-60)")
                             ELSE IF Len(title) > 70
                             THEN Issue(5, "warning", "Title er for lang: "
                                    \o ToString(Len(title)) \o " tegn (anbefalt 50-60)")
                             ELSE IF Len(title) >= 50 /\ Len(title) <= 60
                             THEN Success("Optimal title-lengde: "
                                    \o ToString(Len(title)) \o " tegn")
                             ELSE None
                       t2 == IF ~Contains(title, "|") /\ ~Contains(title, "-")
                             THEN Issue(0, "info",
                                        "Title mangler tydelig struktur (keyword | brand)")
                             ELSE None
                   IN t1 \o t2
        \* meta description
        desc == DescriptionCapture(html)
        s2 == IF desc = Null
              THEN Issue(12, "critical", "Mangler meta description")
              ELSE IF Len(desc) < 70
              THEN Issue(6, "warning", "Meta description er for kort: "
                     \o ToString(Len(desc)) \o " tegn (anbefalt 150-160)")
              ELSE IF Len(desc) > 160
              THEN Issue(3, "info", "Meta description er litt lang: "
                     \o ToString(Len(desc)) \o " tegn (kan bli avkortet)")
              ELSE IF Len(desc) >= 140 /\ Len(desc) <= 160
              THEN Success("Optimal meta description: "
                     \o ToString(Len(desc)) \o " tegn")
              ELSE None
        \* heading structure
        h1Count == Len(PairedMatches(html, "h1", 0))
        h2Count == Len(TagsOf(html, "h2"))
        s3 == IF h1Count = 0
              THEN Issue(10, "critical", "Mangler H1-overskrift")
              ELSE IF h1Count > 1
              THEN Issue(5, "warning", "Flere H1-overskrifter: "
                     \o ToString(h1Count) \o " (bor kun ha en)")
              ELSE Success("Korrekt bruk av H1-overskrift")
        s4 == IF h2Count = 0 /\ HtmlLength(html) > 5000
              THEN Issue(3, "info", "Mangler H2-overskrifter for struktur")
              ELSE None
        \* canonical URL
        hasCanonical ==
            \E k \in 1..Len(html) :
                /\ TagIs(html[k], "link")
                /\ OrderedCapture(html[k].attrs, "rel", "canonical", "href", TRUE) # Null
        s5 == IF ~hasCanonical
              THEN Issue(8, "warning", "Mangler canonical URL")
              ELSE Success("Canonical URL er definert")
        \* Open Graph
        ogScore ==
            Cardinality({p \in {"og:title", "og:description", "og:image", "og:url"} :
                            HasMeta(html, "property", p)})
        s6 == IF ogScore = 0
              THEN Issue(8, "warning",
                         "Mangler Open Graph-tags (pavirker deling pa sosiale medier)")
              ELSE IF ogScore < 4
              THEN Issue(4, "info", "Ufullstendige Open Graph-tags ("
                     \o ToString(ogScore) \o "/4)")
              ELSE Success("Komplett Open Graph-implementasjon")
        \* Twitter cards
        s7 == IF ~HasMeta(html, "name", "twitter:card")
              THEN Issue(4, "info", "Mangler Twitter Card-tags")
              ELSE None
        \* image alt texts
        imgTags == TagsOf(html, "img")
        imagesWithoutAlt == CountIf(imgTags, LAMBDA img : ~HasAttrAssign(img, "alt"))
        s8 == IF imagesWithoutAlt > 0
              THEN Issue(Min(10, imagesWithoutAlt * 2), "warning",
                         ToString(imagesWithoutAlt) \o " bilder mangler alt-tekst")
              ELSE None
        \* structured data
        hasJsonLd ==
            \E k \in 1..Len(html) :
                /\ TagIs(html[k], "script")
                /\ HasAttrValue(html[k], "type", "application/ld+json")
        hasMicrodata == HtmlContains(html, "itemscope") \/ HtmlContains(html, "itemtype")
        s9 == IF ~hasJsonLd /\ ~hasMicrodata
              THEN Issue(5, "info", "Mangler strukturert data (Schema.org)")
              ELSE Success("Strukturert data er implementert")
        \* language declaration
        hasLang ==
            \E k \in 1..Len(html) :
                TagIs(html[k], "html") /\ FirstValue(html[k].attrs, "lang") # Null
        s10 == IF ~hasLang
               THEN Issue(3, "info", "Mangler sprakdeklarasjon (lang-attributt)")
               ELSE None
        \* robots meta
        robots == RobotsCapture(html)
        s11 == IF robots # Null /\ Contains(robots, "noindex")
               THEN Issue(0, "warning",
                          "Siden er satt til noindex (vil ikke indekseres)")
               ELSE None
        \* internal links
        internalLinks == CountIf(html, IsInternalLink)
        s12 == IF internalLinks < 3 /\ HtmlLength(html) > 5000
               THEN Issue(2, "info",
                          "Fa interne lenker (bor ha flere for bedre SEO)")
               ELSE None
    IN [state |-> Run(<<s1, s2, s3, s4, s5, s6, s7, s8,
                         s9, s10, s11, s12>>),
        metrics |-> [titleLength |-> IF titleText = Null THEN 0 ELSE Len(title),
                     descriptionLength |-> IF desc = Null THEN 0 ELSE Len(desc),
                     h1Count |-> h1Count,
                     h2Count |-> h2Count,
                     imagesWithoutAlt |-> imagesWithoutAlt,
                     hasStructuredData |-> hasJsonLd \/ hasMicrodata,
                     hasOpenGraph |-> ogScore = 4]]

\* the return statement of analyzeSEO
analyzeSEO(html, parsedUrl) ==
    Only({[score |-> Clamp(run.state.score),
           details |-> run.state.details \o run.state.issues,
           metrics |-> run.metrics]
          : run \in {seoChecks(html, parsedUrl)}})


\* ------------------------------------------------------------------------
\* analyzeSecurity
\* ------------------------------------------------------------------------

\* headers.forEach((value, key) => headerObj[key.toLowerCase()] = value), then
\* headerObj[key]: the value of the last entry with that key, or undefined.
\* headers is the sequence of <<key, value>> entries forEach visits.
HeaderGet(headers, key) ==
    LET hits == {k \in 1..Len(headers) : headers[k][1] = key} IN
    IF hits = {} THEN Null
    ELSE headers[CHOOSE k \in hits : \A m \in hits : m <= k][2]

AlphaNum == Letters \cup Digits

\* hsts.match(/max-age=(\d+)/i) && parseInt(maxAge[1]) < 31536000
MaxAgeBelowOneYear(hsts) ==
    LET starts == {i \in IndexesOf(hsts, "max-age=") :
                      DigitRun(hsts, i + Len("max-age=")) > 0} IN
    IF starts = {} THEN FALSE
    ELSE LET i == (CHOOSE k \in starts : \A m \in starts : k <= m) + Len("max-age=")
             zeros == RunIn(hsts, i, {"0"})
             run == DigitRun(hsts, i + zeros)
         IN run < 8 \/ (run = 8 /\ ParseDigits(hsts, i + zeros, run) < 31536000)

\* /\d+\.\d+/.test(s)
HasVersionNumber(s) ==
    \E i \in IndexesOf(s, ".") : CharAt(s, i - 1) \in Digits /\ CharAt(s, i + 1) \in Digits

\* the number of matches of /http:\/\/(?!localhost)[^"'\s>]+/gi in s from i on
RECURSIVE HttpRefsFrom(_, _)
HttpRefsFrom(s, i) ==
    IF i + Len("http://") - 1 > Len(s) THEN 0
    ELSE LET after == i + Len("http://")
             run == RunNotIn(s, after, {"\"", "'", " ", "\n", "\t", ">"})
         IN IF /\ SubSeq(s, i, after - 1) = "http://"
               /\ SubSeq(s, after, after + Len("localhost") - 1) # "localhost"
               /\ run > 0
            THEN 1 + HttpRefsFrom(s, after + run)
            ELSE HttpRefsFrom(s, i + 1)

\* tokens that cannot hold the text are skipped before the scan
HttpRefs(html) ==
    SumSeq([k \in 1..Len(html) |->
               IF Contains(Render(html[k]), "http://")
               THEN HttpRefsFrom(Render(html[k]), 1) ELSE 0])

\* the matches of /[a-zA-Z0-9._%+-]+@[a-zA-Z0-9.-]+\.[a-zA-Z]{2,}/g in s: an @
\* with a local part before it and, after it, a dotted name ending in letters
EmailsIn(s) ==
    Cardinality({at \in IndexesOf(s, "@") :
        /\ CharAt(s, at - 1) \in AlphaNum \cup {".", "_", "%", "+", "-"}
        /\ LET run == RunIn(s, at + 1, AlphaNum \cup {".", "-"}) IN
           \E p \in (at + 2)..(at + run) :
               CharAt(s, p) = "." /\ RunIn(s, p + 1, Letters) >= 2})

ExposedEmails(html) ==
    SumSeq([k \in 1..Len(html) |->
               IF Contains(Render(html[k]), "@") THEN EmailsIn(Render(html[k])) ELSE 0])

\* a plausible slip: csp is tested before it is searched, so that a response
\* without a CSP is never found lacking
LacksFrameProtectionGivenCsp(xfo, csp) ==
    ~Truthy(xfo) /\ Truthy(csp) /\ ~Contains(csp, "frame-ancestors")

\* !xfo && !csp?.includes('frame-ancestors')
LacksFrameProtection(xfo, csp) ==
    ~Truthy(xfo) /\ ~(csp # Null /\ Contains(csp, "frame-ancestors"))

\* a plausible slip: the deduction waits for the protocol 'http', which
\* new URL never yields (it yields 'http:')
IsHttpWithoutColon(parsedUrl) == parsedUrl.protocol = "http"

\* parsedUrl.protocol !== 'https:'
LacksHttps(parsedUrl) == parsedUrl.protocol # "https:"

\* The body of analyzeSecurity up to its return statement
securityChecks(parsedUrl, headers, html) ==
    LET \* HTTPS
        s1 == IF LacksHttps(parsedUrl)
              THEN Issue(30, "critical", "Siden bruker ikke HTTPS")
              ELSE Success("HTTPS er aktivert")
        \* HTTP Strict Transport Security
        hsts == HeaderGet(headers, "strict-transport-security")
        s2 == IF ~Truthy(hsts)
              THEN Issue(12, "warning",
                         "Mangler HSTS-header (Strict-Transport-Security)")
              ELSE LET t1 == IF MaxAgeBelowOneYear(hsts)
                             THEN Issue(4, "info",
                                   "HSTS max-age bor vaere minst 1 ar (31536000 sekunder)")
                             ELSE Success("HSTS er korrekt konfigurert")
                       t2 == IF ~Contains(hsts, "includesubdomains")
                             THEN Issue(0, "info", "HSTS mangler includeSubDomains")
                             ELSE None
                   IN t1 \o t2
        \* Content Security Policy
        csp == HeaderGet(headers, "content-security-policy")
        s3 == IF ~Truthy(csp)
              THEN Issue(10, "warning", "Mangler Content-Security-Policy header")
              ELSE LET t1 == Success("CSP er implementert")
                       t2 == IF Contains(csp, "unsafe-inline") /\ Contains(csp, "script-src")
                             THEN Issue(3, "info",
                                        "CSP tillater unsafe-inline for scripts")
                             ELSE None
                       t3 == IF Contains(csp, "unsafe-eval")
                             THEN Issue(3, "info", "CSP tillater unsafe-eval")
                             ELSE None
                   IN t1 \o t2 \o t3
        \* X-Frame-Options
        xfo == HeaderGet(headers, "x-frame-options")
        s4 == IF LacksFrameProtection(xfo, csp)
              THEN Issue(8, "warning",
                         "Mangler clickjacking-beskyttelse (X-Frame-Options)")
              ELSE Success("Clickjacking-beskyttelse er aktiv")
        \* X-Content-Type-Options
        xcto == HeaderGet(headers, "x-content-type-options")
        s5 == IF ~Truthy(xcto)
              THEN Issue(6, "warning", "Mangler X-Content-Type-Options: nosniff")
              ELSE Success("MIME-type sniffing er blokkert")
        \* Referrer-Policy
        s6 == IF ~Truthy(HeaderGet(headers, "referrer-policy"))
              THEN Issue(4, "info", "Mangler Referrer-Policy header")
              ELSE None
        \* Permissions-Policy
        s7 == IF ~Truthy(HeaderGet(headers, "permissions-policy"))
                 /\ ~Truthy(HeaderGet(headers, "feature-policy"))
              THEN Issue(4, "info", "Mangler Permissions-Policy header")
              ELSE None
        \* X-XSS-Protection
        s8 == IF ~Truthy(HeaderGet(headers, "x-xss-protection"))
              THEN Issue(2, "info", "Mangler X-XSS-Protection header (legacy)")
              ELSE None
        \* mixed content
        httpResources == HttpRefs(html)
        s9 == IF httpResources > 0 /\ parsedUrl.protocol = "https:"
              THEN Issue(5, "warning", ToString(httpResources)
                     \o " ressurser lastes over HTTP (mixed content)")
              ELSE None
        \* sensitive data exposure
        s10 == IF ExposedEmails(html) > 3
               THEN Issue(2, "info",
                          "E-postadresser er synlige i kildekoden (spam-risiko)")
               ELSE None
        \* form security
        formsWithoutHTTPS ==
            CountIf(TagsOf(html, "form"),
                    LAMBDA f : Contains(Render(f), "action=\"http://"))
        s11 == IF formsWithoutHTTPS > 0
               THEN Issue(8, "critical", ToString(formsWithoutHTTPS)
                      \o " skjema sender data over HTTP")
               ELSE None
        \* password fields
        passwordWithoutAutocomplete ==
            CountIf(TagsOf(html, "input"),
                    LAMBDA f : HasAttrValue(f, "type", "password")
                               /\ ~HasAttrAssign(f, "autocomplete"))
        s12 == IF passwordWithoutAutocomplete > 0
               THEN Issue(0, "info", "Passord-felt mangler autocomplete-attributt")
               ELSE None
        \* server header disclosure
        server == HeaderGet(headers, "server")
        s13 == IF /\ Truthy(server)
                  /\ \E w \in {"apache", "nginx", "iis"} : Contains(server, w)
                  /\ HasVersionNumber(server)
               THEN Issue(2, "info", "Server-versjon er synlig i headers")
               ELSE None
        s14 == IF Truthy(HeaderGet(headers, "x-powered-by"))
               THEN Issue(2, "info", "X-Powered-By header eksponerer teknologi")
               ELSE None
    IN [state |-> Run(<<s1, s2, s3, s4, s5, s6, s7, s8,
                         s9, s10, s11, s12, s13, s14>>),
        headers |-> [https |-> parsedUrl.protocol = "https:",
                     hsts |-> Truthy(hsts),
                     csp |-> Truthy(csp),
                     xfo |-> Truthy(xfo),
                     xcto |-> Truthy(xcto)]]

\* the return statement of analyzeSecurity
analyzeSecurity(parsedUrl, headers, html) ==
    Only({[score |-> Clamp(run.state.score),
           details |-> run.state.details \o run.state.issues,
           headers |-> run.headers]
          : run \in {securityChecks(parsedUrl, headers, html)}})


\* ------------------------------------------------------------------------
\* analyzeMobile
\* ------------------------------------------------------------------------

\* parseInt of the digit run at i; a run of more than 6 significant digits
\* is read as 1000000, which no comparison of the source tells from its value
ParseIntAt(s, i) ==
    LET run == DigitRun(s, i)
        zeros == RunIn(s, i, {"0"})
    IN IF run - zeros > 6 THEN 1000000 ELSE ParseDigits(s, i + zeros, run - zeros)

\* The matches of /prop\s*(\d+)px/ in s, as the positions of their digits
CssPxMatches(s, prop) ==
    {SkipSpace(s, i + Len(prop)) : i \in
        {i \in IndexesOf(s, prop) :
            LET j == SkipSpace(s, i + Len(prop)) IN
            DigitRun(s, j) > 0 /\ SubSeq(s, j + DigitRun(s, j), j + DigitRun(s, j) + 1) = "px"}}

\* tokens without the property are skipped before the scan
CssPxCount(html, prop, Keep(_, _)) ==
    SumSeq([k \in 1..Len(html) |->
               IF Contains(Render(html[k]), prop)
               THEN Cardinality({j \in CssPxMatches(Render(html[k]), prop) :
                                    Keep(Render(html[k]), j)})
               ELSE 0])

\* viewportMatch[1] of
\* /<meta[^>]*name=["']viewport["'][^>]*content=["']([^"']+)["']/i
ViewportOf(tok) ==
    IF ~TagIs(tok, "meta") THEN Null
    ELSE OrderedCapture(tok.attrs, "name", "viewport", "content", TRUE)

ViewportCapture(html) ==
    LET i == FirstIndex(html, LAMBDA tok : ViewportOf(tok) # Null) IN
    IF i = 0 THEN Null ELSE ViewportOf(html[i])

\* The matches of /@media[^{]*\{/gi in s that hold max-width, min-width or screen
MobileQueriesIn(s) ==
    Cardinality({i \in IndexesOf(s, "@media") :
        LET run == RunNotIn(s, i + Len("@media"), {"{"})
            query == SubSeq(s, i, i + Len("@media") + run)
        IN /\ CharAt(s, i + Len("@media") + run) = "{"
           /\ \E w \in {"max-width", "min-width", "screen"} : Contains(query, w)})

MobileQueries(html) ==
    SumSeq([k \in 1..Len(html) |->
               IF Contains(Render(html[k]), "@media")
               THEN MobileQueriesIn(Render(html[k])) ELSE 0])

\* The body of analyzeMobile up to its return statement
mobileChecks(html) ==
    LET \* viewport meta tag
        viewport == ViewportCapture(html)
        s1 == IF viewport = Null
              THEN Issue(25, "critical", "Mangler viewport meta-tag")
              ELSE LET t1 == IF ~Contains(viewport, "width=device-width")
                             THEN Issue(10, "warning",
                                        "Viewport mangler width=device-width")
                             ELSE Success("Viewport er korrekt konfigurert")
                       t2 == IF Contains(viewport, "maximum-scale=1")
                                \/ Contains(viewport, "user-scalable=no")
                             THEN Issue(5, "warning",
                                   "Viewport blokkerer zoom (darlig for tilgjengelighet)")
                             ELSE None
                       t3 == IF ~Contains(viewport, "initial-scale")
                             THEN Issue(2, "info", "Viewport mangler initial-scale=1")
                             ELSE None
                   IN t1 \o t2 \o t3
        \* touch-friendly elements
        verySmallFonts ==
            CssPxCount(html, "font-size:", LAMBDA str, j : ParseIntAt(str, j) < 12)
        s2 == IF verySmallFonts > 5
              THEN Issue(5, "warning",
                   "Flere elementer har for liten skriftstorrelse for mobil (<12px)")
              ELSE None
        \* tap targets: /padding:\s*[0-3]px/
        smallButtons ==
            CssPxCount(html, "padding:",
                       LAMBDA str, j : DigitRun(str, j) = 1
                                       /\ CharAt(str, j) \in {"0", "1", "2", "3"})
        s3 == IF smallButtons > 3
              THEN Issue(3, "info",
                         "Noen klikkbare elementer kan vaere for sma for touch")
              ELSE None
        \* responsive images
        imgTags == TagsOf(html, "img")
        responsiveImages == CountIf(imgTags, LAMBDA img : HasAttrAssign(img, "srcset"))
        pictureElements == Len(TagsOf(html, "picture"))
        s4 == IF Len(imgTags) > 5 /\ responsiveImages = 0 /\ pictureElements = 0
              THEN Issue(8, "warning", "Ingen responsive bilder (srcset/picture)")
              ELSE IF Len(imgTags) > 3 /\ 2 * responsiveImages < Len(imgTags)
              THEN Issue(4, "info", "Kun " \o ToString(responsiveImages) \o "/"
                     \o ToString(Len(imgTags)) \o " bilder er responsive")
              ELSE None
        \* CSS media queries
        mobileQueries == MobileQueries(html)
        s5 == IF mobileQueries = 0
              THEN Issue(10, "warning",
                         "Ingen CSS media queries for responsivt design")
              ELSE IF mobileQueries < 3
              THEN Issue(4, "info", "Fa media queries: " \o ToString(mobileQueries))
              ELSE Success(ToString(mobileQueries) \o " responsive media queries")
        \* fixed widths: /width:\s*\d{4,}px/ with a value above 500
        largeFixedWidths ==
            CssPxCount(html, "width:",
                       LAMBDA str, j : DigitRun(str, j) >= 4 /\ ParseIntAt(str, j) > 500)
        s6 == IF largeFixedWidths > 2
              THEN Issue(8, "warning", ToString(largeFixedWidths)
                     \o " elementer har faste bredder som kan bryte mobil-layout")
              ELSE None
        \* touch icons
        appleTouchIcon == HasLinkRel(html, "apple-touch-icon")
        favicon == HasLinkRel(html, "icon")
        s7 == IF ~appleTouchIcon
              THEN Issue(3, "info", "Mangler Apple Touch Icon")
              ELSE None
        s8 == IF ~favicon THEN Issue(2, "info", "Mangler favicon") ELSE None
        \* web app manifest
        hasManifest == HasLinkRel(html, "manifest")
        s9 == IF ~hasManifest
              THEN Issue(5, "info", "Mangler Web App Manifest (PWA-stotte)")
              ELSE Success("Web App Manifest er implementert")
        \* theme color
        s10 == IF ~HasMeta(html, "name", "theme-color")
               THEN Issue(2, "info", "Mangler theme-color meta-tag")
               ELSE None
    IN [state |-> Run(<<s1, s2, s3, s4, s5, s6, s7, s8,
                         s9, s10>>),
        metrics |-> [hasViewport |-> viewport # Null,
                     responsiveImages |-> responsiveImages,
                     totalImages |-> Len(imgTags),
                     mediaQueries |-> mobileQueries,
                     hasManifest |-> hasManifest,
                     hasTouchIcon |-> appleTouchIcon]]

\* the return statement of analyzeMobile
analyzeMobile(html) ==
    Only({[score |-> Clamp(run.state.score),
           details |-> run.state.details \o run.state.issues,
           metrics |-> run.metrics]
          : run \in {mobileChecks(html)}})


\* ------------------------------------------------------------------------
\* analyzeAccessibility
\* ------------------------------------------------------------------------

\* new RegExp(`<label[^>]*for=["']${id}["']`, 'i') inserts the id into the
\* pattern unescaped.  The model's ids are made of letters, digits, - and _,
\* which stand for themselves, of . (any character) and of ( and ) (a group).

\* the nesting depth after each character of id, from depth d
RECURSIVE ParenDepths(_, _)
ParenDepths(id, d) ==
    IF id = "" THEN <<>>
    ELSE LET c == CharAt(id, 1)
             n == IF c = "(" THEN d + 1 ELSE IF c = ")" THEN d - 1 ELSE d
         IN <<n>> \o ParenDepths(SubSeq(id, 2, Len(id)), n)

\* the pattern is a SyntaxError: a ) that closes nothing, or a ( never closed
RegExpThrows(id) ==
    LET depths == ParenDepths(id, 0) IN
    \/ \E k \in 1..Len(depths) : depths[k] < 0
    \/ (depths # <<>> /\ depths[Len(depths)] # 0)

\* the id with its group parentheses removed: what the pattern matches
RECURSIVE StripParens(_)
StripParens(id) ==
    IF id = "" THEN ""
    ELSE (IF CharAt(id, 1) \in {"(", ")"} THEN "" ELSE CharAt(id, 1))
         \o StripParens(SubSeq(id, 2, Len(id)))

\* the pattern made from id matches the attribute value exactly
IdPatternMatches(id, value) ==
    LET pat == StripParens(id) IN
    /\ Len(pat) = Len(value)
    /\ \A k \in 1..Len(pat) : CharAt(pat, k) = "." \/ CharAt(pat, k) = CharAt(value, k)

\* labelPattern.test(html)
LabelPatternTest(html, id) ==
    \E k \in 1..Len(html) :
        /\ TagIs(html[k], "label")
        /\ \E a \in 1..Len(html[k].attrs) :
              /\ AttrNamed(html[k].attrs[a], "for")
              /\ IdPatternMatches(id, html[k].attrs[a].v)

\* inputs.filter(i => !/type=["'](hidden|submit|button|image)["']/i.test(i))
IsTextInput(tok) ==
    ~\E t \in {"hidden", "submit", "button", "image"} : HasAttrValue(tok, "type", t)

TextInputs(html) == SelectSeq(TagsOf(html, "input"), IsTextInput)

\* the callback of inputsWithoutLabel
InputWithoutLabel(html, input) ==
    LET id == FirstValue(input.attrs, "id") IN
    IF id = Null THEN TRUE ELSE ~LabelPatternTest(html, id)

\* new RegExp(...) throws inside analyzeAccessibility
analyzeAccessibilityThrows(html) ==
    \E k \in 1..Len(TextInputs(html)) :
        LET id == FirstValue(TextInputs(html)[k].attrs, "id") IN
        id # Null /\ RegExpThrows(id)

\* headings[i - 1].count: (html.match(new RegExp(`<h${i}[^>]*>`, 'gi')) || []).length
HeadingCount(html, i) == Len(TagsOf(html, "h" \o ToString(i)))

\* The loop over headings: lastLevel is the last level seen; the first level
\* that skips one ends the loop.  <<>> when no level is skipped, else <<from, to>>.
RECURSIVE FirstSkip(_, _, _)
FirstSkip(html, level, lastLevel) ==
    IF level > 6 THEN <<>>
    ELSE IF HeadingCount(html, level) > 0
         THEN IF lastLevel > 0 /\ level > lastLevel + 1
              THEN <<lastLevel, level>>
              ELSE FirstSkip(html, level + 1, level)
         ELSE FirstSkip(html, level + 1, lastLevel)

\* The loop over headings without its break: every level that skips one is
\* reported, and lastLevel moves on.
RECURSIVE SkipsFrom(_, _, _)
SkipsFrom(html, level, lastLevel) ==
    IF level > 6 THEN <<>>
    ELSE IF HeadingCount(html, level) > 0
         THEN (IF lastLevel > 0 /\ level > lastLevel + 1
               THEN <<(<<lastLevel, level>>)>> ELSE <<>>)
              \o SkipsFrom(html, level + 1, level)
         ELSE SkipsFrom(html, level + 1, lastLevel)

SkipsWithoutBreak(html) == SkipsFrom(html, 1, 0)

\* the skips the loop reports: the break leaves it after the first one
ReportedSkips(html) ==
    IF FirstSkip(html, 1, 0) = <<>> THEN <<>> ELSE <<FirstSkip(html, 1, 0)>>

\* headings.filter(h => h.count > 0).map(h => `H${h.level}:${h.count}`).join(', ')
RECURSIVE HeadingStructure(_, _)
HeadingStructure(html, level) ==
    IF level > 6 THEN ""
    ELSE LET rest == HeadingStructure(html, level + 1)
             n == HeadingCount(html, level)
         IN IF n = 0 THEN rest
            ELSE "H" \o ToString(level) \o ":" \o ToString(n)
                 \o (IF rest = "" THEN "" ELSE ", " \o rest)

\* /<name[^>]*>|role=["']role["']/i.test(html)
HasLandmark(html, name, role) ==
    \/ \E k \in 1..Len(html) : TagIs(html[k], name)
    \/ HtmlContains(html, "role=\"" \o role \o "\"")

\* the characters from position from of token k up to the end of the line
RECURSIVE RestOfLine(_, _, _)
RestOfLine(html, k, from) ==
    IF k > Len(html) THEN ""
    ELSE LET text == Render(html[k])
             run == RunNotIn(text, from, {"\n"})
         IN IF from + run <= Len(text) THEN SubSeq(text, from, from + run - 1)
            ELSE SubSeq(text, from, Len(text)) \o RestOfLine(html, k + 1, 1)

\* /skip.*(link|nav|content)/i.test(html)
HasSkipText(html) ==
    \E k \in 1..Len(html) :
        /\ Contains(Render(html[k]), "skip")
        /\ \E p \in IndexesOf(Render(html[k]), "skip") :
              \E w \in {"link", "nav", "content"} :
                  Contains(RestOfLine(html, k, p + Len("skip")), w)

\* /<a[^>]*href=["']#(main|content|skip)[^"']*["'][^>]*>/i.test(html)
HasSkipAnchor(html) ==
    \E k \in 1..Len(html) :
        /\ TagIs(html[k], "a")
        /\ \E a \in 1..Len(html[k].attrs) :
              /\ AttrNamed(html[k].attrs[a], "href")
              /\ \E w \in {"#main", "#content", "#skip"} :
                    StartsWith(html[k].attrs[a].v, w)

GenericLinkTexts == {"klikk her", "les mer", "her", "link", "click here", "read more"}

\* link.replace(/<[^>]*>/g, '').trim().toLowerCase() of the match first..last
LinkText(html, first, last) ==
    Trim(ConcatAll([k \in 1..(last - first + 1) |->
            IF IsTag(html[first + k - 1]) THEN ""
            ELSE html[first + k - 1].text \o Blanks(html[first + k - 1].pad)]))

\* /outline:\s*none|outline:\s*0(?!\d)/gi.test(html)
HasOutlineNoneIn(s) ==
    \E i \in IndexesOf(s, "outline:") :
        LET j == SkipSpace(s, i + Len("outline:")) IN
        \/ SubSeq(s, j, j + Len("none") - 1) = "none"
        \/ (CharAt(s, j) = "0" /\ CharAt(s, j + 1) \notin Digits)

\* the matches of /color:\s*#[def][def][def]/gi in s
LightColorsIn(s) ==
    Cardinality({i \in IndexesOf(s, "color:") :
        LET j == SkipSpace(s, i + Len("color:")) IN
        /\ CharAt(s, j) = "#"
        /\ \A d \in 1..3 : CharAt(s, j + d) \in {"d", "e", "f"}})

\* /tabindex=["'][1-9]/gi has a match
HasPositiveTabindex(html) ==
    \E d \in Digits \ {"0"} : HtmlContains(html, "tabindex=\"" \o d)

\* The body of analyzeAccessibility up to its return statement
accessibilityChecks(html) ==
    LET \* language declaration
        langAt == FirstIndex(html, LAMBDA tok : TagIs(tok, "html")
                                               /\ FirstValue(tok.attrs, "lang") # Null)
        s1 == IF langAt = 0
              THEN Issue(8, "warning", "Mangler lang-attributt pa html-elementet")
              ELSE Success("Sprak er definert: "
                     \o FirstValue(html[langAt].attrs, "lang"))
        \* image alt texts
        imgTags == TagsOf(html, "img")
        imagesWithoutAlt == CountIf(imgTags, LAMBDA img : ~HasAttrAssign(img, "alt"))
        s2 == IF imagesWithoutAlt > 0
              THEN Issue(Min(15, imagesWithoutAlt * 3), "warning",
                         ToString(imagesWithoutAlt) \o " bilder mangler alt-attributt")
              ELSE IF Len(imgTags) > 0
              THEN Success("Alle bilder har alt-attributt")
              ELSE None
        \* form labels
        textInputs == TextInputs(html)
        inputsWithoutLabel == CountIf(textInputs, LAMBDA i : InputWithoutLabel(html, i))
        inputsWithAriaLabel ==
            CountIf(textInputs, LAMBDA i : HasAttrAssign(i, "aria-label")
                                           \/ HasAttrAssign(i, "aria-labelledby"))
        unlabeled == inputsWithoutLabel - inputsWithAriaLabel
        s3 == IF inputsWithoutLabel > inputsWithAriaLabel /\ unlabeled > 0
              THEN Issue(Min(12, unlabeled * 3), "warning",
                         ToString(unlabeled) \o " skjemafelt mangler tilknyttet label")
              ELSE None
        \* heading hierarchy
        s4 == IF HeadingCount(html, 1) = 0
              THEN Issue(5, "warning", "Mangler H1-overskrift")
              ELSE None
        s5 == Map(ReportedSkips(html), LAMBDA skip :
                  Issue(3, "info", "Overskriftsniva hoppes over (H"
                     \o ToString(skip[1]) \o " til H" \o ToString(skip[2]) \o ")"))
        \* ARIA landmarks
        landmarks ==
            Cardinality({l \in {<<"main", "main">>, <<"nav", "navigation">>,
                                <<"header", "banner">>, <<"footer", "contentinfo">>} :
                            HasLandmark(html, l[1], l[2])})
        s6 == IF landmarks < 2
              THEN Issue(6, "warning",
                         "Fa ARIA landmarks (main, nav, header, footer)")
              ELSE IF landmarks = 4
              THEN Success("God bruk av semantiske landmarks")
              ELSE None
        \* skip link
        hasSkipLink == HasSkipAnchor(html) \/ HasSkipText(html)
        s7 == IF ~hasSkipLink /\ HtmlLength(html) > 10000
              THEN Issue(5, "info", "Mangler skip-link for tastaturnavigasjon")
              ELSE None
        \* link text quality
        links == PairedMatches(html, "a", 0)
        badLinkTexts ==
            Cardinality({k \in 1..Len(links) :
                            LinkText(html, links[k][1], links[k][2]) \in GenericLinkTexts})
        s8 == IF badLinkTexts > 3
              THEN Issue(5, "info", ToString(badLinkTexts)
                     \o " lenker har generisk tekst (\"klikk her\", \"les mer\")")
              ELSE None
        \* focus indicators
        hasOutlineNone ==
            \E k \in 1..Len(html) :
                Contains(Render(html[k]), "outline:") /\ HasOutlineNoneIn(Render(html[k]))
        hasFocusStyles == HtmlContains(html, ":focus")
        s9 == IF hasOutlineNone /\ ~hasFocusStyles
              THEN Issue(5, "warning",
                         "Focus-indikatorer kan vaere fjernet uten erstatning")
              ELSE None
        \* colour contrast
        veryLightColors ==
            SumSeq([k \in 1..Len(html) |->
                       IF Contains(Render(html[k]), "color:")
                       THEN LightColorsIn(Render(html[k])) ELSE 0])
        s10 == IF veryLightColors > 3
               THEN Issue(3, "info",
                          "Mulig darlig fargekontrast (veldig lyse farger)")
               ELSE None
        \* tables
        s11 == IF Len(TagsOf(html, "table")) > 0 /\ Len(TagsOf(html, "th")) = 0
               THEN Issue(5, "warning", "Tabeller mangler header-celler (th)")
               ELSE None
        \* button / link roles
        divsWithOnclick ==
            CountIf(TagsOf(html, "div"), LAMBDA t : Contains(Render(t), "onclick"))
        spansWithOnclick ==
            CountIf(TagsOf(html, "span"), LAMBDA t : Contains(Render(t), "onclick"))
        s12 == IF divsWithOnclick + spansWithOnclick > 2
               THEN Issue(4, "warning",
                          "Klikkbare div/span-elementer bor vaere buttons eller lenker")
               ELSE None
        \* tabindex
        s13 == IF HasPositiveTabindex(html)
               THEN Issue(3, "info",
                          "Positiv tabindex kan forstyrre naturlig tab-rekkefolge")
               ELSE None
    IN [state |-> Run(<<s1, s2, s3, s4>> \o s5
                      \o <<s6, s7, s8, s9, s10, s11, s12, s13>>),
        metrics |-> [hasLang |-> langAt # 0,
                     imagesWithoutAlt |-> imagesWithoutAlt,
                     landmarks |-> landmarks,
                     hasSkipLink |-> hasSkipLink,
                     headingStructure |-> HeadingStructure(html, 1)]]

\* the return statement of analyzeAccessibility
analyzeAccessibility(html) ==
    Only({[score |-> Clamp(run.state.score),
           details |-> run.state.details \o run.state.issues,
           metrics |-> run.metrics]
          : run \in {accessibilityChecks(html)}})

\* ------------------------------------------------------------------------
\* getStatus
\* ------------------------------------------------------------------------

getStatus(score) ==
    IF score >= 90 THEN "green"
    ELSE IF score >= 70 THEN "yellow"
    ELSE IF score >= 50 THEN "orange"
    ELSE "red"


\* ------------------------------------------------------------------------
\* IEEE 754 double arithmetic for the weighted total
\* ------------------------------------------------------------------------
\* A double x with 0 <= x < 128 that is a multiple of 2^-60 is held as the
\* number x * 2^60, written with five digits in base 2^16, least significant
\* first.  The scores, the three weights, their products and the partial sums
\* are all of that kind.

\* 2^16
LimbBase == 65536

\* significant binary digits of a double
Precision == 53

\* the exact sum a + b
AddLimbs(a, b) ==
    LET t1 == a[1] + b[1]
        t2 == a[2] + b[2] + (t1 \div LimbBase)
        t3 == a[3] + b[3] + (t2 \div LimbBase)
        t4 == a[4] + b[4] + (t3 \div LimbBase)
        t5 == a[5] + b[5] + (t4 \div LimbBase)
    IN <<t1 % LimbBase, t2 % LimbBase, t3 % LimbBase, t4 % LimbBase, t5 % LimbBase>>

\* the exact product a * n for a natural number n <= 100
MulLimbs(a, n) ==
    LET t1 == a[1] * n
        t2 == a[2] * n + (t1 \div LimbBase)
        t3 == a[3] * n + (t2 \div LimbBase)
        t4 == a[4] * n + (t3 \div LimbBase)
        t5 == a[5] * n + (t4 \div LimbBase)
    IN <<t1 % LimbBase, t2 % LimbBase, t3 % LimbBase, t4 % LimbBase, t5 % LimbBase>>

\* the number of binary digits of v < 2^16
BitLength(v) == CHOOSE k \in 0..16 : v < 2 ^ k /\ (k = 0 \/ v >= 2 ^ (k - 1))

\* the position of the most significant binary digit 1 of a, 0 for zero
TopBit(a) ==
    LET used == {k \in 1..5 : a[k] # 0} IN
    IF used = {} THEN 0
    ELSE LET k == CHOOSE u \in used : \A w \in used : w <= u IN
         16 * (k - 1) + BitLength(a[k])

\* Round to nearest, ties to even, at 53 significant binary digits.  The
\* numbers are below 2^67, so at most 14 digits are dropped, all of a[1].
RoundToDouble(a) ==
    LET drop == TopBit(a) - Precision IN
    IF drop <= 0 THEN a
    ELSE LET guard == (a[1] \div (2 ^ (drop - 1))) % 2
             sticky == a[1] % (2 ^ (drop - 1)) # 0
             odd == (a[1] \div (2 ^ drop)) % 2 = 1
             kept == <<a[1] - (a[1] % (2 ^ drop)), a[2], a[3], a[4], a[5]>>
         IN IF guard = 1 /\ (sticky \/ odd)
            THEN AddLimbs(kept, <<2 ^ drop, 0, 0, 0, 0>>)
            ELSE kept

\* the doubles nearest to 0.25, 0.20 and 0.15, times 2^60:
\* 0x0400000000000000, 0x0333333333333340 and 0x0266666666666660
Weight25 == <<0, 0, 0, 1024, 0>>

Weight20 == <<13120, 13107, 13107, 819, 0>>

Weight15 == <<26208, 26214, 26214, 614, 0>>

\* score * weight in double arithmetic
DoubleTimes(score, weight) == RoundToDouble(MulLimbs(weight, score))

\* a + b in double arithmetic
DoublePlus(a, b) == RoundToDouble(AddLimbs(a, b))

\* Math.round(x) for x >= 0: the nearest integer, a tie going up.  The digit
\* of weight 1/2 is digit 60 of x * 2^60, the integer part starts at digit 61.
MathRound(x) ==
    LET whole == 16 * x[5] + (x[4] \div 4096) IN
    IF (x[4] \div 2048) % 2 = 1 THEN whole + 1 ELSE whole

\* Math.round(p * 0.25 + s * 0.25 + c * 0.20 + m * 0.15 + a * 0.15)
weightedTotal(p, s, c, m, a) ==
    MathRound(
        DoublePlus(
            DoublePlus(
                DoublePlus(
                    DoublePlus(DoubleTimes(p, Weight25), DoubleTimes(s, Weight25)),
                    DoubleTimes(c, Weight20)),
                DoubleTimes(m, Weight15)),
            DoubleTimes(a, Weight15)))

\* the weighted sum in hundredths, and its rounding with halves going up
ExactHundredths(p, s, c, m, a) == 25 * p + 25 * s + 20 * c + 15 * m + 15 * a

RoundHalfUp(hundredths) == (hundredths + 50) \div 100


\* ------------------------------------------------------------------------
\* Inputs: response headers, fetched bodies, resource inventories
\* ------------------------------------------------------------------------
\* The entries of response.headers as forEach visits them (keys in lower case)

FullHeaders ==
    <<(<<"content-type", "text/html; charset=utf-8">>),
      (<<"strict-transport-security", "max-age=31536000; includesubdomains">>),
      (<<"content-security-policy", "default-src 'self'; frame-ancestors 'none'">>),
      (<<"x-frame-options", "deny">>),
      (<<"x-content-type-options", "nosniff">>),
      (<<"referrer-policy", "no-referrer">>),
      (<<"permissions-policy", "camera=()">>),
      (<<"x-xss-protection", "0">>)>>

WeakHeaders ==
    <<(<<"content-type", "text/html">>),
      (<<"strict-transport-security", "max-age=3600">>),
      (<<"content-security-policy", "script-src 'unsafe-inline' 'unsafe-eval'">>),
      (<<"server", "nginx/1.18.0">>),
      (<<"x-powered-by", "php/7.4">>)>>

NoHeaders == <<(<<"content-type", "text/html">>)>>

\* no security header, but the server names itself
DisclosingHeaders ==
    <<(<<"content-type", "text/html">>),
      (<<"server", "nginx/1.18.0">>),
      (<<"x-powered-by", "php/7.4">>)>>

JsonHeaders == <<(<<"content-type", "application/json">>)>>

\* a page that passes every check
GoodDoc ==
    <<Tag("html", <<Attr("lang", "no")>>),
      Tag("head", <<>>),
      Tag("title", <<>>), Text("effekt | webutvikling og design for bedrifter i norge", 0), Tag("/title", <<>>),
      Tag("meta", <<Attr("name", "description"),
                    Attr("content", "effekt bygger raske nettsider for sma og mellomstore bedrifter. vi leverer design, utvikling, sokemotoroptimalisering og drift med faste priser. ta kontakt.")>>),
      Tag("meta", <<Attr("name", "viewport"),
                    Attr("content", "width=device-width, initial-scale=1")>>),
      Tag("meta", <<Attr("name", "theme-color"), Attr("content", "#123456")>>),
      Tag("meta", <<Attr("property", "og:title"), Attr("content", "effekt")>>),
      Tag("meta", <<Attr("property", "og:description"), Attr("content", "byra")>>),
      Tag("meta", <<Attr("property", "og:image"), Attr("content", "/og.webp")>>),
      Tag("meta", <<Attr("property", "og:url"), Attr("content", "/")>>),
      Tag("meta", <<Attr("name", "twitter:card"), Attr("content", "summary")>>),
      Tag("link", <<Attr("rel", "canonical"), Attr("href", "/")>>),
      Tag("link", <<Attr("rel", "preconnect"), Attr("href", "/fonts")>>),
      Tag("link", <<Attr("rel", "icon"), Attr("href", "/favicon.ico")>>),
      Tag("link", <<Attr("rel", "apple-touch-icon"), Attr("href", "/touch.png")>>),
      Tag("link", <<Attr("rel", "manifest"), Attr("href", "/site.webmanifest")>>),
      Tag("script", <<Attr("type", "application/ld+json")>>), Tag("/script", <<>>),
      Tag("style", <<>>),
      Text("body{margin:0} a:focus{outline: 2px solid} @media screen{p{margin:0}} "
           \o "@media (max-width: 600px){p{margin:0}} "
           \o "@media (min-width: 900px){p{margin:0}}", 0),
      Tag("/style", <<>>),
      Tag("/head", <<>>),
      Tag("body", <<>>),
      Tag("a", <<Attr("href", "#main")>>), Text("hopp til innhold", 0), Tag("/a", <<>>),
      Tag("header", <<>>), Tag("nav", <<>>),
      Tag("a", <<Attr("href", "/tjenester")>>), Text("tjenester", 0), Tag("/a", <<>>),
      Tag("/nav", <<>>), Tag("/header", <<>>),
      Tag("main", <<Attr("id", "main")>>),
      Tag("h1", <<>>), Text("effekt", 0), Tag("/h1", <<>>),
      Tag("h2", <<>>), Text("tjenester", 0), Tag("/h2", <<>>),
      Tag("img", <<Attr("src", "/hero.webp"), Attr("alt", "kontoret"),
                   Attr("width", "800"), Attr("height", "400"),
                   Attr("srcset", "/hero-2x.webp 2x")>>),
      Tag("label", <<Attr("for", "epost")>>), Text("e-post", 0), Tag("/label", <<>>),
      Tag("input", <<Attr("type", "email"), Attr("id", "epost")>>),
      Tag("/main", <<>>),
      Tag("footer", <<>>), Tag("/footer", <<>>),
      Tag("/body", <<>>), Tag("/html", <<>>)>>

\* a page that fails every check at once
WorstDoc ==
    <<Text("a@b.no c@d.no e@f.no g@h.no", 500001)>>
    \o Rep(26, Tag("script", <<Attr("src", "/x.js")>>))
    \o Rep(9, Tag("link", <<Attr("rel", "stylesheet"), Attr("href", "/s.css")>>))
    \o Rep(9, Tag("img", <<Attr("src", "/p.png")>>))
    \o <<Tag("iframe", <<Attr("src", "/frame")>>),
         Tag("form", <<Attr("action", "http://a.no/send")>>)>>
    \o Rep(4, Tag("input", <<Attr("type", "text")>>))
    \o <<Tag("input", <<Attr("type", "password")>>),
         Tag("h3", <<>>), Tag("h5", <<>>),
         Tag("table", <<>>)>>
    \o Rep(3, Tag("div", <<Attr("onclick", "go()"), Attr("tabindex", "3")>>))
    \o Flatten(Rep(4, <<Tag("a", <<>>), Text("les mer", 0), Tag("/a", <<>>)>>))
    \o <<Tag("p", <<Attr("style",
            "font-size: 9px; font-size: 9px; font-size: 9px; font-size: 9px; "
            \o "font-size: 9px; font-size: 9px; padding: 1px; padding: 1px; "
            \o "padding: 1px; padding: 1px; width: 1200px; width: 1200px; "
            \o "width: 1200px; outline: none; color: #fff; color: #eee; "
            \o "color: #ddd; color: #fef")>>),
         Tag("style", <<>>), Text("p{margin:0}", 50001), Tag("/style", <<>>)>>

\* a JSON body
JsonDoc == <<Text("{\"ok\":true,\"items\":[1,2,3]}", 0)>>

\* an input whose id holds a regex metacharacter that opens a group
ParenIdDoc ==
    <<Tag("html", <<Attr("lang", "no")>>),
      Tag("form", <<>>),
      Tag("label", <<Attr("for", "a(")>>), Text("navn", 0), Tag("/label", <<>>),
      Tag("input", <<Attr("type", "text"), Attr("id", "a(")>>),
      Tag("/form", <<>>)>>

\* an input whose id holds the regex metacharacter . and a label for another id
DotIdDoc ==
    <<Tag("html", <<Attr("lang", "no")>>),
      Tag("form", <<>>),
      Tag("label", <<Attr("for", "axb")>>), Text("navn", 0), Tag("/label", <<>>),
      Tag("input", <<Attr("type", "text"), Attr("id", "a.b")>>),
      Tag("/form", <<>>)>>

\* script tags with absolute src URLs
AbsoluteScriptDoc ==
    <<Tag("html", <<>>), Tag("h1", <<>>), Text("butikk", 0), Tag("/h1", <<>>)>>
    \o Flatten(Rep(6, <<Tag("script", <<Attr("src", "https://cdn.example.com/x.js")>>),
                       Tag("/script", <<>>)>>))

\* unclosed tags, attributes in the other order, bare attributes, a stray <
ReversedDoc ==
    <<Tag("html", <<BareAttr("lang")>>),
      Tag("title", <<>>), Text("uten slutt", 0),
      Tag("meta", <<Attr("content", "kort beskrivelse"), Attr("name", "description")>>),
      Tag("meta", <<Attr("content", "width=device-width"), Attr("name", "viewport")>>),
      Tag("link", <<Attr("href", "/s.css"), Attr("rel", "stylesheet")>>),
      Tag("img", <<BareAttr("alt"), Attr("src", "/p.png"), Attr("width", "10px")>>),
      Tag("a", <<Attr("href", "/om")>>), Text("les mer", 0),
      Tag("h1", <<>>), Text("uten slutt", 0),
      Tag("script", <<BareAttr("async"), Attr("src", "/x.js")>>),
      Text("1 < 2", 0)>>

EmptyDoc == <<>>

\* the fetched bodies of the specifications
Docs ==
    {EmptyDoc, GoodDoc, WorstDoc, JsonDoc, ParenIdDoc, DotIdDoc,
     AbsoluteScriptDoc, ReversedDoc}

\* 26 external scripts that are neither async nor defer, as a caller of
\* analyzePerformance may pass them
BlockingResources ==
    [scripts |-> Rep(26, [src |-> "/x.js", isInline |-> FALSE, isAsync |-> FALSE,
                          isDefer |-> FALSE, isModule |-> FALSE]),
     stylesheets |-> Rep(9, [href |-> "/s.css", isPreload |-> FALSE]),
     images |-> Map(Rep(9, Tag("img", <<Attr("src", "/p.png")>>)), ImageRef),
     fonts |-> <<>>,
     iframes |-> <<[src |-> "/frame", hasLazyLoading |-> FALSE]>>]

\* 11 scripts with absolute src URLs on another host
ThirdPartyResources ==
    [scripts |-> Rep(11, [src |-> "https://cdn.example.com/x.js", isInline |-> FALSE,
                          isAsync |-> TRUE, isDefer |-> FALSE, isModule |-> FALSE]),
     stylesheets |-> <<>>, images |-> <<>>, fonts |-> <<>>, iframes |-> <<>>]

\* a body that is itself the text of a URL
UrlDoc == <<Text("https://a.no/", 0)>>

\* a short page
SmallDoc ==
    <<Tag("html", <<Attr("lang", "no")>>),
      Tag("h1", <<>>), Text("hei", 0), Tag("/h1", <<>>)>>

\* a page with a title of 55 characters, a description of 150, one h1, a
\* canonical link, the four Open Graph tags and the language no, and with
\* extra in its body
SeoPage(extra) ==
    <<Tag("html", <<Attr("lang", "no")>>),
      Tag("head", <<>>),
      Tag("title", <<>>), Text("effekt | nettsider, design og synlighet for din bedrift", 0), Tag("/title", <<>>),
      Tag("meta", <<Attr("name", "description"),
                    Attr("content", "effekt bygger raske nettsider for sma og mellomstore bedrifter. vi leverer "
                                    \o "design, utvikling, sokemotoroptimalisering og drift med faste priser. ta ko")>>),
      Tag("link", <<Attr("rel", "canonical"), Attr("href", "/side")>>),
      Tag("meta", <<Attr("property", "og:title"), Attr("content", "effekt")>>),
      Tag("meta", <<Attr("property", "og:description"), Attr("content", "byra")>>),
      Tag("meta", <<Attr("property", "og:image"), Attr("content", "/og.webp")>>),
      Tag("meta", <<Attr("property", "og:url"), Attr("content", "/side")>>),
      Tag("/head", <<>>),
      Tag("body", <<>>),
      Tag("h1", <<>>), Text("effekt", 0), Tag("/h1", <<>>)>>
    \o extra
    \o <<Tag("/body", <<>>), Tag("/html", <<>>)>>

SeoDoc == SeoPage(<<>>)

\* one input with a label and an aria-label, and another with neither
AriaDoc ==
    <<Tag("html", <<Attr("lang", "no")>>),
      Tag("h1", <<>>), Text("skjema", 0), Tag("/h1", <<>>),
      Tag("form", <<>>),
      Tag("label", <<Attr("for", "navn")>>), Text("navn", 0), Tag("/label", <<>>),
      Tag("input", <<Attr("type", "text"), Attr("id", "navn"),
                     Attr("aria-label", "navn")>>),
      Tag("input", <<Attr("type", "text"), Attr("name", "epost")>>),
      Tag("/form", <<>>)>>

\* a page with an h1 that skips from h1 to h3 and again from h3 to h6
SkipsDoc ==
    SeoPage(<<Tag("h3", <<>>), Text("tjenester", 0), Tag("/h3", <<>>),
              Tag("h6", <<>>), Text("kontakt", 0), Tag("/h6", <<>>)>>)

\* a page without an h1 that skips from h2 to h4 and again from h4 to h6
NoH1SkipsDoc ==
    <<Tag("html", <<Attr("lang", "no")>>),
      Tag("h2", <<>>), Text("tjenester", 0), Tag("/h2", <<>>),
      Tag("h4", <<>>), Text("priser", 0), Tag("/h4", <<>>),
      Tag("h6", <<>>), Text("kontakt", 0), Tag("/h6", <<>>)>>

\* the same page with an image that has no alt attribute
SeoDocWithImage == SeoPage(<<Tag("img", <<Attr("src", "/p.png")>>)>>)

\* the same page kept out of the index
SeoDocNoindex ==
    SeoPage(<<Tag("meta", <<Attr("name", "robots"), Attr("content", "noindex")>>)>>)

\* ------------------------------------------------------------------------
\* The objects of the handler: res, the request, the fetched response
\* ------------------------------------------------------------------------

\* a response of the platform before the handler touches it
NewResponse ==
    [headers |-> {}, statusCode |-> 200, body |-> [none |-> TRUE], sent |-> 0]

\* res.setHeader(name, value)
setHeader(res, name, value) ==
    [res EXCEPT !.headers = {h \in @ : h[1] # name} \cup {<<name, value>>}]

\* res.status(code)
status(res, code) == [res EXCEPT !.statusCode = code]

\* res.end(): the response goes out with an empty body
end(res) == [res EXCEPT !.body = [empty |-> TRUE], !.sent = @ + 1]

\* res.json(value): the response goes out with value as its body
json(res, value) == [res EXCEPT !.body = [json |-> value], !.sent = @ + 1]

CorsHeaders ==
    {<<"Access-Control-Allow-Origin", "*">>,
     <<"Access-Control-Allow-Methods", "GET, OPTIONS">>,
     <<"Access-Control-Allow-Headers", "Content-Type">>}

\* a plausible slip: the third header is never set
SetCorsWithoutAllowHeaders(res) ==
    setHeader(setHeader(res, "Access-Control-Allow-Origin", "*"),
              "Access-Control-Allow-Methods", "GET, OPTIONS")

\* the three res.setHeader calls the handler starts with
SetCors(res) ==
    setHeader(setHeader(setHeader(res, "Access-Control-Allow-Origin", "*"),
                        "Access-Control-Allow-Methods", "GET, OPTIONS"),
              "Access-Control-Allow-Headers", "Content-Type")

\* a plausible slip: the method is compared in lower case
IsPreflightLowerCase(method) == method = "options"

\* req.method === 'OPTIONS'
IsPreflight(method) == method = "OPTIONS"

\* a plausible slip: only an absent parameter counts, url === undefined
UrlUndefined(url) == url = Null

\* !url: the parameter is absent or the empty string
UrlMissing(url) == url = Null \/ url = ""

MissingUrlError == [error |-> "URL mangler"]

InvalidUrlError == [error |-> "Ugyldig URL-format"]

GenericError ==
    [error |-> "Kunne ikke analysere URL. Sjekk at nettsiden er tilgjengelig."]

\* a plausible slip: the catch block logs and sends nothing
OnThrowSilent(res) == res

\* the catch block: res.status(500).json({ error: ... })
OnThrow(res) == json(status(res, 500), GenericError)

\* the decimal digits of n, at least width of them
Padded(n, width) ==
    LET str == ToString(n) IN
    IF Len(str) >= width THEN str
    ELSE SubSeq("000", 1, width - Len(str)) \o str

\* new Date(ms).toISOString() for a time within the first hour of the epoch
toISOString(ms) ==
    "1970-01-01T00:" \o Padded(ms \div 60000, 2) \o ":"
    \o Padded((ms \div 1000) % 60, 2) \o "." \o Padded(ms % 1000, 3) \o "Z"

industryBenchmarks ==
    [performance |-> 68, seo |-> 72, security |-> 65, mobile |-> 78,
     accessibility |-> 62]

\* one entry of result.categories
Category(analysis, benchmark) ==
    [score |-> analysis.score,
     status |-> getStatus(analysis.score),
     details |-> analysis.details,
     benchmark |-> benchmark]

\* the object result
Report(url, date, responseTime, performanceResult, seoResult, securityResult, mobileResult, accessibilityResult) ==
    [url |-> url,
     analyzedAt |-> toISOString(date),
     responseTime |-> responseTime,
     totalScore |-> weightedTotal(performanceResult.score, seoResult.score,
                                  securityResult.score, mobileResult.score,
                                  accessibilityResult.score),
     benchmarks |-> industryBenchmarks,
     categories |->
        [performance |-> Category(performanceResult, industryBenchmarks.performance),
         seo |-> Category(seoResult, industryBenchmarks.seo),
         security |-> Category(securityResult, industryBenchmarks.security),
         mobile |-> Category(mobileResult, industryBenchmarks.mobile),
         accessibility |->
             Category(accessibilityResult, industryBenchmarks.accessibility)]]

AnalyzerNames ==
    <<"analyzePerformance", "analyzeSEO", "analyzeSecurity", "analyzeMobile",
      "analyzeAccessibility">>

\* The handler from the moment response.text() has resolved: the body is
\* response.body, date is the clock.  It yields res as it is sent and the
\* functions it called.
Conclude(res, url, parsedUrl, response, responseTime, date) ==
    LET html == response.body
        \* lines 50-54 and 57-114, given the five results
        Respond(results) ==
            [res |-> json(status(res, 200),
                          Report(url, date, responseTime, results[1], results[2],
                                 results[3], results[4], results[5])),
             called |-> <<"extractResources">> \o AnalyzerNames]
        \* lines 50-114, given the extracted resources
        Analyze(resources) ==
            IF analyzePerformanceThrows(responseTime, html, resources)
            THEN [res |-> OnThrow(res),
                  called |-> <<"extractResources", "analyzePerformance">>]
            ELSE IF analyzeAccessibilityThrows(html)
            THEN [res |-> OnThrow(res),
                  called |-> <<"extractResources">> \o AnalyzerNames]
            ELSE Only({Respond(results) :
                       results \in {<<analyzePerformance(responseTime, html, resources),
                                       analyzeSEO(html, parsedUrl),
                                       analyzeSecurity(parsedUrl, response.headers, html),
                                       analyzeMobile(html),
                                       analyzeAccessibility(html)>>}})
    IN Only({Analyze(resources) : resources \in {extractResources(html)}})

\* The handler from its first line to the first await or return.  await is
\* TRUE when it has called fetch and waits for it.
Enter(request) ==
    LET res == SetCors(NewResponse) IN
    IF IsPreflight(request.method)
    THEN [res |-> end(status(res, 200)), await |-> FALSE, called |-> <<>>]
    ELSE IF UrlMissing(request.url)
    THEN [res |-> json(status(res, 400), MissingUrlError), await |-> FALSE,
          called |-> <<>>]
    ELSE IF ~ParseURL(request.url).ok
    THEN [res |-> json(status(res, 400), InvalidUrlError), await |-> FALSE,
          called |-> <<"new URL">>]
    ELSE [res |-> res, await |-> TRUE, called |-> <<"new URL", "fetch">>]

\* ------------------------------------------------------------------------
\* Bounds and input sets
\* ------------------------------------------------------------------------

\* handler invocations that may be in flight together
NumInvocations == 2

Invocations == 1..NumInvocations

Methods == {"GET", "POST", "OPTIONS"}

\* req.query.url: absent, empty, not a URL, or a URL
QueryUrls == {Null, "", "not-a-url", "http://a.no", "https://b.no/side", "ftp://c.no/fil"}

Requests == [method : Methods, url : QueryUrls]

\* what a fetch may resolve to: the headers and the body of the response
Responses ==
    {[headers |-> FullHeaders, body |-> GoodDoc],
     [headers |-> NoHeaders, body |-> WorstDoc],
     [headers |-> WeakHeaders, body |-> EmptyDoc],
     [headers |-> JsonHeaders, body |-> JsonDoc],
     [headers |-> NoHeaders, body |-> ParenIdDoc],
     [headers |-> FullHeaders, body |-> DotIdDoc],
     [headers |-> NoHeaders, body |-> AbsoluteScriptDoc],
     [headers |-> WeakHeaders, body |-> ReversedDoc]}

\* milliseconds a fetch may take
Delays == {120, 3500}

\* the inputs of the runs with several invocations in flight
ConcurrentRequests ==
    {[method |-> "GET", url |-> "http://a.no"],
     [method |-> "GET", url |-> "https://b.no/side"],
     [method |-> "OPTIONS", url |-> Null]}

ConcurrentResponses ==
    {[headers |-> FullHeaders, body |-> SmallDoc],
     [headers |-> NoHeaders, body |-> EmptyDoc]}

ConcurrentDelays == {700}

\* the arguments of one call of the analyzers
AnalyzerInput(responseTime, html, resources, url, headers) ==
    [responseTime |-> responseTime, html |-> html, resources |-> resources,
     parsedUrl |-> ParseURL(url), headers |-> headers]

AnalyzerInputs ==
    {AnalyzerInput(120, d, extractResources(d), "https://b.no/side", FullHeaders) :
        d \in Docs \cup {SmallDoc, UrlDoc}}
    \cup {AnalyzerInput(3500, d, extractResources(d), "http://a.no", NoHeaders) :
        d \in Docs \cup {SmallDoc, UrlDoc}}
    \cup {AnalyzerInput(900, d, extractResources(d), "https://b.no/side", WeakHeaders) :
        d \in Docs \cup {SmallDoc, UrlDoc}}
    \cup {AnalyzerInput(900, GoodDoc, extractResources(GoodDoc), "http://a.no", FullHeaders),
          AnalyzerInput(900, WorstDoc, extractResources(WorstDoc), "http://a.no", WeakHeaders),
          AnalyzerInput(900, WorstDoc, extractResources(WorstDoc), "https://b.no/side", NoHeaders),
          AnalyzerInput(900, GoodDoc, extractResources(GoodDoc), "https://b.no/side", DisclosingHeaders),
          AnalyzerInput(900, WorstDoc, extractResources(WorstDoc), "http://a.no", DisclosingHeaders),
          AnalyzerInput(900, SeoDoc, extractResources(SeoDoc), "https://b.no/side", FullHeaders),
          AnalyzerInput(900, SeoDocWithImage, extractResources(SeoDocWithImage), "https://b.no/side", FullHeaders),
          AnalyzerInput(900, SeoDocNoindex, extractResources(SeoDocNoindex), "https://b.no/side", FullHeaders),
          AnalyzerInput(900, AriaDoc, extractResources(AriaDoc), "https://b.no/side", FullHeaders),
          AnalyzerInput(900, SkipsDoc, extractResources(SkipsDoc), "https://b.no/side", FullHeaders),
          AnalyzerInput(900, NoH1SkipsDoc, extractResources(NoH1SkipsDoc), "https://b.no/side", FullHeaders)}
    \cup {AnalyzerInput(3500, WorstDoc, BlockingResources, "http://a.no", NoHeaders),
          AnalyzerInput(120, UrlDoc, ThirdPartyResources, "https://b.no/side", FullHeaders),
          AnalyzerInput(120, GoodDoc, ThirdPartyResources, "https://b.no/side", FullHeaders)}

\* category scores the weighted total is computed from
Scores == {0, 1, 9, 50, 99, 100}

TotalInputs ==
    {[scores |-> <<p, s, c, m, a>>] : p \in Scores, s \in Scores, c \in Scores,
                                      m \in Scores, a \in Scores}

\* ------------------------------------------------------------------------
\* State
\* ------------------------------------------------------------------------

VARIABLES
    pc,       \* where each invocation stands: idle, fetch, text or done
    req,      \* the request of each invocation
    res,      \* the response object of each invocation
    locals,   \* the local variables of the handler, one frame per call
    calls,    \* the functions each invocation has called, in order
    inputs,   \* what the environment has given each invocation
    now,      \* the clock Date.now() reads
    call,     \* the arguments of a direct call of an analyzer or of the total
    result    \* what that call returned

vars == <<pc, req, res, locals, calls, inputs, now, call, result>>

handlerVars == <<pc, req, res, locals, calls, inputs, now>>

NoRequest == [method |-> "", url |-> Null]

NoResponse == [headers |-> <<>>, body |-> <<>>]

\* the handler's let and const variables before they are assigned
NoLocals ==
    [url |-> Null, parsedUrl |-> ParseURL(""), startTime |-> 0,
     response |-> NoResponse, responseTime |-> 0]

NoInputs == [start |-> 0, outcome |-> "none", response |-> NoResponse, at |-> 0, end |-> 0]

NoCall == [fn |-> "none"]

NoResult == [analyzer |-> "none", threw |-> FALSE, value |-> [score |-> 0]]

\* a plausible slip: the variables live at module level, one copy for all calls
SharedFrame(i) == 1

\* the frame that holds the locals of invocation i: every call of handler
\* has its own
Frame(i) == i

HandlerInit ==
    /\ pc = [i \in Invocations |-> "idle"]
    /\ req = [i \in Invocations |-> NoRequest]
    /\ res = [i \in Invocations |-> NewResponse]
    /\ locals = [f \in Invocations |-> NoLocals]
    /\ calls = [i \in Invocations |-> <<>>]
    /\ inputs = [i \in Invocations |-> NoInputs]
    /\ now = 0

Init == HandlerInit /\ call = NoCall /\ result = NoResult

\* ------------------------------------------------------------------------
\* The handler, one action per stretch between two awaits
\* ------------------------------------------------------------------------

\* A request arrives: the handler runs up to `await fetch(url, ...)` or to
\* the return of a preflight or of a rejected url.
HandlerEntry(i, requests) ==
    /\ pc[i] = "idle"
    /\ \E request \in requests :
          \E step \in {Enter(request)} :
          /\ req' = [req EXCEPT ![i] = request]
          /\ res' = [res EXCEPT ![i] = step.res]
          /\ calls' = [calls EXCEPT ![i] = step.called]
          /\ pc' = [pc EXCEPT ![i] = IF step.await THEN "fetch" ELSE "done"]
          /\ locals' = IF step.await
                       THEN [locals EXCEPT ![Frame(i)] =
                                [NoLocals EXCEPT !.url = request.url,
                                                 !.parsedUrl = ParseURL(request.url),
                                                 !.startTime = now]]
                       ELSE locals
          /\ inputs' = [inputs EXCEPT ![i].start = now]
    /\ UNCHANGED <<now, call, result>>

\* a plausible slip: a failed fetch is tried once more
FetchRetries(i) ==
    /\ pc[i] = "fetch"
    /\ Len(calls[i]) < 3
    /\ calls' = [calls EXCEPT ![i] = Append(@, "fetch")]
    /\ UNCHANGED <<pc, req, res, locals, inputs, now, call, result>>

\* The fetch promise rejects (no connection, a scheme fetch does not speak):
\* the catch block answers.
FetchRejects(i) ==
    /\ pc[i] = "fetch"
    /\ res' = [res EXCEPT ![i] = OnThrow(@)]
    /\ pc' = [pc EXCEPT ![i] = "done"]
    /\ inputs' = [inputs EXCEPT ![i].outcome = "fetch rejected"]
    /\ UNCHANGED <<req, locals, calls, now, call, result>>

\* The fetch promise resolves after delay ms: response and responseTime are
\* assigned and the handler calls response.text().
FetchResolves(i, responses, delays) ==
    /\ pc[i] = "fetch"
    /\ ParseURL(req[i].url).protocol \in {"http:", "https:"}
    /\ \E response \in responses, delay \in delays :
          /\ now' = now + delay
          /\ locals' = [locals EXCEPT
                           ![Frame(i)].response = response,
                           ![Frame(i)].responseTime = now' - locals[Frame(i)].startTime]
          /\ inputs' = [inputs EXCEPT ![i].response = response, ![i].at = now',
                                      ![i].outcome = "fetch resolved"]
    /\ calls' = [calls EXCEPT ![i] = Append(@, "response.text")]
    /\ pc' = [pc EXCEPT ![i] = "text"]
    /\ UNCHANGED <<req, res, call, result>>

\* Reading the body fails: the catch block answers.
TextRejects(i) ==
    /\ pc[i] = "text"
    /\ res' = [res EXCEPT ![i] = OnThrow(@)]
    /\ pc' = [pc EXCEPT ![i] = "done"]
    /\ inputs' = [inputs EXCEPT ![i].outcome = "text rejected"]
    /\ UNCHANGED <<req, locals, calls, now, call, result>>

\* The body arrives: extraction, the five analyzers, the report and the
\* answer, or the catch block when one of them throws.
TextResolves(i) ==
    /\ pc[i] = "text"
    /\ \E frame \in {locals[Frame(i)]} :
          \E step \in {Conclude(res[i], frame.url, frame.parsedUrl, frame.response,
                                frame.responseTime, now)} :
             /\ res' = [res EXCEPT ![i] = step.res]
             /\ calls' = [calls EXCEPT ![i] = @ \o step.called]
    /\ pc' = [pc EXCEPT ![i] = "done"]
    /\ inputs' = [inputs EXCEPT ![i].outcome = "text resolved", ![i].end = now]
    /\ UNCHANGED <<req, locals, now, call, result>>

\* one request at a time
Next ==
    \/ HandlerEntry(1, Requests)
    \/ FetchRejects(1)
    \/ FetchResolves(1, Responses, Delays)
    \/ TextRejects(1)
    \/ TextResolves(1)

Spec == Init /\ [][Next]_vars

\* several requests in flight, interleaving at their awaits
NextConcurrent ==
    \E i \in Invocations :
        \/ HandlerEntry(i, ConcurrentRequests)
        \/ FetchRejects(i)
        \/ FetchResolves(i, ConcurrentResponses, ConcurrentDelays)
        \/ TextRejects(i)
        \/ TextResolves(i)

SpecConcurrent == Init /\ [][NextConcurrent]_vars

\* ------------------------------------------------------------------------
\* The analyzers called directly, with arguments of the caller's choosing
\* ------------------------------------------------------------------------

Returned(analyzer, value) == [analyzer |-> analyzer, threw |-> FALSE, value |-> value]

Threw(analyzer) == [analyzer |-> analyzer, threw |-> TRUE, value |-> [score |-> 0]]

InitAnalyzers == HandlerInit /\ call \in AnalyzerInputs /\ result = NoResult

AnalyzePerformance ==
    /\ result = NoResult
    /\ result' = IF analyzePerformanceThrows(call.responseTime, call.html, call.resources)
                 THEN Threw("analyzePerformance")
                 ELSE Returned("analyzePerformance",
                               analyzePerformance(call.responseTime, call.html,
                                                  call.resources))
    /\ UNCHANGED <<handlerVars, call>>

AnalyzeSEO ==
    /\ result = NoResult
    /\ result' = Returned("analyzeSEO", analyzeSEO(call.html, call.parsedUrl))
    /\ UNCHANGED <<handlerVars, call>>

AnalyzeSecurity ==
    /\ result = NoResult
    /\ result' = Returned("analyzeSecurity",
                          analyzeSecurity(call.parsedUrl, call.headers, call.html))
    /\ UNCHANGED <<handlerVars, call>>

AnalyzeMobile ==
    /\ result = NoResult
    /\ result' = Returned("analyzeMobile", analyzeMobile(call.html))
    /\ UNCHANGED <<handlerVars, call>>

AnalyzeAccessibility ==
    /\ result = NoResult
    /\ result' = IF analyzeAccessibilityThrows(call.html)
                 THEN Threw("analyzeAccessibility")
                 ELSE Returned("analyzeAccessibility", analyzeAccessibility(call.html))
    /\ UNCHANGED <<handlerVars, call>>

NextAnalyzers ==
    \/ AnalyzePerformance
    \/ AnalyzeSEO
    \/ AnalyzeSecurity
    \/ AnalyzeMobile
    \/ AnalyzeAccessibility

SpecAnalyzers == InitAnalyzers /\ [][NextAnalyzers]_vars

\* ------------------------------------------------------------------------
\* The weighted total, for category scores of the caller's choosing
\* ------------------------------------------------------------------------

InitTotal == HandlerInit /\ call \in TotalInputs /\ result = NoResult

\* const totalScore = Math.round(...)
ComputeTotal ==
    /\ result = NoResult
    /\ result' = Returned("totalScore",
                          [score |-> weightedTotal(call.scores[1], call.scores[2],
                                                   call.scores[3], call.scores[4],
                                                   call.scores[5])])
    /\ UNCHANGED <<handlerVars, call>>

NextTotal == ComputeTotal

SpecTotal == InitTotal /\ [][NextTotal]_vars

\* ------------------------------------------------------------------------
\* Properties
\* ------------------------------------------------------------------------

\* how often f occurs among the calls
Count(called, f) == Len(SelectSeq(called, LAMBDA g : g = f))

\* no fetch went out and no analyzer ran
NothingReached(called) ==
    \A k \in 1..Len(called) :
        called[k] \notin {"fetch", "response.text", "extractResources",
                          "analyzePerformance", "analyzeSEO", "analyzeSecurity",
                          "analyzeMobile", "analyzeAccessibility"}

ReportFields ==
    {"url", "analyzedAt", "responseTime", "totalScore", "benchmarks", "categories"}

CategoryNames == {"performance", "seo", "security", "mobile", "accessibility"}

\* r is a status 200 with a complete report as its body
IsFullReport(r) ==
    /\ r.statusCode = 200
    /\ DOMAIN r.body = {"json"}
    /\ DOMAIN r.body.json = ReportFields
    /\ DOMAIN r.body.json.categories = CategoryNames
    /\ DOMAIN r.body.json.benchmarks = CategoryNames
    /\ r.body.json.totalScore \in 0..100
    /\ \A c \in CategoryNames :
          /\ DOMAIN r.body.json.categories[c] = {"score", "status", "details", "benchmark"}
          /\ r.body.json.categories[c].score \in 0..100

\* r carries one object with the single field error
IsSingleError(r) ==
    /\ r.statusCode \in {400, 500}
    /\ DOMAIN r.body = {"json"}
    /\ DOMAIN r.body.json = {"error"}

\* r is the answer of the catch block and nothing else
IsGenericFailure(r) ==
    /\ r.statusCode = 500
    /\ r.body = [json |-> GenericError]

\* r is the answer to a preflight
IsEmptyOk(r) ==
    /\ r.statusCode = 200
    /\ r.body = [empty |-> TRUE]

\* the fetched response does not declare HTML and holds no markup
NotHtml(response) ==
    /\ ~Contains(HeaderGet(response.headers, "content-type"), "html")
    /\ \A k \in 1..Len(response.body) : ~IsTag(response.body[k])

\* the request passes the handler's validation of url
PassesValidation(request) ==
    /\ request.method # "OPTIONS"
    /\ request.url \notin {Null, ""}
    /\ ParseURL(request.url).ok

\* The response invocation i would send if it ran alone, given its request,
\* the outcome and the response of its fetch, and the clock readings it took
Alone(request, in) ==
    LET step == Enter(request) IN
    IF ~step.await THEN step.res
    ELSE IF in.outcome \in {"fetch rejected", "text rejected"}
    THEN json(status(step.res, 500), GenericError)
    ELSE Conclude(step.res, request.url, ParseURL(request.url), in.response,
                  in.at - in.start, in.end).res

\* C1: every analyzer that returns, returns an integer score from 0 to 100,
\* also when the deductions add up to more than 100
C1_ScoreInRange ==
    (result.analyzer \in {AnalyzerNames[k] : k \in 1..Len(AnalyzerNames)}
        /\ ~result.threw)
    => result.value.score \in 0..100

\* analyzePerformance returned 0 although its running score went below 0
C1_Witness ==
    /\ result.analyzer = "analyzePerformance"
    /\ ~result.threw
    /\ result.value.score = 0
    /\ performanceChecks(call.responseTime, call.html, call.resources).state.score < 0

\* C2: the total is the weighted sum of the category scores rounded to the
\* nearest integer with halves rounded up
C2_TotalIsRoundedHalfUp ==
    result.analyzer = "totalScore"
    => result.value.score =
          RoundHalfUp(ExactHundredths(call.scores[1], call.scores[2], call.scores[3],
                                      call.scores[4], call.scores[5]))

\* C3 as stated: an absent url gives "URL mangler", any other url that is not
\* a valid absolute URL gives "Ugyldig URL-format"
C3_AsStated ==
    \A i \in Invocations :
        (pc[i] # "idle" /\ req[i].method # "OPTIONS")
        => /\ req[i].url = Null
              => /\ res[i].statusCode = 400
                 /\ res[i].body = [json |-> MissingUrlError]
           /\ (req[i].url # Null /\ ~ParseURL(req[i].url).ok)
              => /\ res[i].statusCode = 400
                 /\ res[i].body = [json |-> InvalidUrlError]

\* C3: a request other than OPTIONS whose url is absent or empty is answered
\* 400 "URL mangler", one whose url is non-empty but not a valid absolute URL
\* is answered 400 "Ugyldig URL-format"; neither reaches fetch or an analyzer
C3_UrlValidation ==
    \A i \in Invocations :
        (pc[i] # "idle" /\ req[i].method # "OPTIONS")
        => /\ req[i].url \in {Null, ""}
              => /\ pc[i] = "done"
                 /\ res[i].statusCode = 400
                 /\ res[i].body = [json |-> MissingUrlError]
                 /\ res[i].sent = 1
                 /\ NothingReached(calls[i])
           /\ (req[i].url \notin {Null, ""} /\ ~ParseURL(req[i].url).ok)
              => /\ pc[i] = "done"
                 /\ res[i].statusCode = 400
                 /\ res[i].body = [json |-> InvalidUrlError]
                 /\ res[i].sent = 1
                 /\ NothingReached(calls[i])

\* an empty url was answered "URL mangler"
C3_Witness ==
    /\ pc[1] = "done"
    /\ req[1].method = "GET"
    /\ req[1].url = ""
    /\ res[1].statusCode = 400
    /\ res[1].body = [json |-> MissingUrlError]

\* C4 as stated: every finished request has sent one response, a complete
\* report or a single error object
C4_AsStated ==
    \A i \in Invocations :
        pc[i] = "done"
        => /\ res[i].sent = 1
           /\ IsFullReport(res[i]) \/ IsSingleError(res[i])

\* C4: a request sends nothing before it finishes and one response when it
\* does: a complete report, a single error object, or the empty 200 of a
\* preflight; when fetch, the body read or an analyzer throws, the response
\* is the 500 with the generic message alone
C4_OneWholeResponse ==
    \A i \in Invocations :
        /\ pc[i] # "done" => res[i].sent = 0
        /\ pc[i] = "done"
           => /\ res[i].sent = 1
              /\ \/ IsFullReport(res[i])
                 \/ IsSingleError(res[i])
                 \/ req[i].method = "OPTIONS" /\ IsEmptyOk(res[i])
              /\ inputs[i].outcome \in {"fetch rejected", "text rejected"}
                 => IsGenericFailure(res[i])
              /\ (inputs[i].outcome = "text resolved"
                    /\ analyzeAccessibilityThrows(inputs[i].response.body))
                 => IsGenericFailure(res[i])
              /\ res[i].statusCode = 500 => IsGenericFailure(res[i])

\* an analyzer threw and the answer was the generic 500
C4_Witness ==
    /\ pc[1] = "done"
    /\ inputs[1].outcome = "text resolved"
    /\ analyzeAccessibilityThrows(inputs[1].response.body)
    /\ res[1].sent = 1
    /\ IsGenericFailure(res[1])

C6_NonHtmlIsRejected ==
    \A i \in Invocations :
        (pc[i] = "done" /\ inputs[i].outcome = "text resolved"
            /\ NotHtml(inputs[i].response))
        => IsGenericFailure(res[i])

\* C7: once the body is read, whatever it holds, the answer is a 200 report
C7_AnyBodyIsReported ==
    \A i \in Invocations :
        (pc[i] = "done" /\ inputs[i].outcome = "text resolved")
        => IsFullReport(res[i])

\* C8: an OPTIONS request is answered 200 with an empty body whatever its
\* url, and reaches neither the validation, nor fetch, nor an analyzer
C8_Preflight ==
    \A i \in Invocations :
        req[i].method = "OPTIONS"
        => /\ pc[i] = "done"
           /\ res[i].statusCode = 200
           /\ res[i].body = [empty |-> TRUE]
           /\ res[i].sent = 1
           /\ calls[i] = <<>>

\* an OPTIONS request with a malformed url was answered
C8_Witness ==
    /\ req[1] = [method |-> "OPTIONS", url |-> "not-a-url"]
    /\ pc[1] = "done"
    /\ res[1].statusCode = 200
    /\ res[1].body = [empty |-> TRUE]

\* C9: every response that is sent carries the three CORS headers
C9_CorsOnEveryResponse ==
    \A i \in Invocations :
        res[i].sent > 0 => CorsHeaders \subseteq res[i].headers

\* a 500 went out with the three headers
C9_Witness ==
    /\ res[1].sent = 1
    /\ res[1].statusCode = 500
    /\ CorsHeaders \subseteq res[1].headers

\* C10: with several invocations in flight, the response each one sends when
\* it finishes is the one it would send if it ran alone, and no step of
\* another invocation touches it afterwards
C10_Isolation ==
    [][\A i \in Invocations :
          /\ (pc[i] # "done" /\ pc'[i] = "done")
             => res'[i] = Alone(req'[i], inputs'[i])
          /\ pc[i] = "done"
             => (pc'[i] = "done" /\ res'[i] = res[i] /\ req'[i] = req[i])]_vars

\* invocation 1 sent its report while invocation 2, entered before 1 ended
\* and given another response, was still reading its body
C10_Witness ==
    /\ pc[1] = "done"
    /\ res[1].statusCode = 200
    /\ inputs[1].outcome = "text resolved"
    /\ pc[2] = "text"
    /\ req[2] # req[1]
    /\ inputs[2].response # inputs[1].response
    /\ inputs[2].start <= inputs[1].at
    /\ inputs[2].at <= inputs[1].end

\* ------------------------------------------------------------------------
\* An analyzer called again and again with the same arguments
\* ------------------------------------------------------------------------

\* calls of one analyzer in a row
MaxRuns == 2

\* seconds the clock may advance between the calls
MaxTicks == 2

RepeatInputs ==
    {in \in AnalyzerInputs :
        in.html \in {GoodDoc, WorstDoc, ParenIdDoc} /\ in.responseTime # 900}

\* let score = 100; const issues = []; const details = [];
FreshFindings == [score |-> 100, issues |-> <<>>, details |-> <<>>]

\* a plausible slip: score, issues and details live at module level and keep
\* what the previous call left in them
KeptFindings(left) == left

\* the score and the lists a call starts with: its own, whatever the previous
\* call left
StartFindings(left) == FreshFindings

\* the checks of one call applied to the score and the lists it started with
Resume(start, state) ==
    [score |-> start.score - (100 - state.score),
     issues |-> start.issues \o state.issues,
     details |-> start.details \o state.details]

\* the checks of the analyzer name on the arguments in
ChecksOf(name, in) ==
    CASE name = "analyzePerformance" ->
            performanceChecks(in.responseTime, in.html, in.resources)
      [] name = "analyzeSEO" -> seoChecks(in.html, in.parsedUrl)
      [] name = "analyzeSecurity" -> securityChecks(in.parsedUrl, in.headers, in.html)
      [] name = "analyzeMobile" -> mobileChecks(in.html)
      [] name = "analyzeAccessibility" -> accessibilityChecks(in.html)

\* whether the analyzer name throws on the arguments in
ThrowsOn(name, in) ==
    \/ name = "analyzePerformance"
        /\ analyzePerformanceThrows(in.responseTime, in.html, in.resources)
    \/ name = "analyzeAccessibility" /\ analyzeAccessibilityThrows(in.html)

\* what a call of the analyzer name returns when it starts from start, and
\* what it leaves in score, issues and details
CallOutcome(name, in, start) ==
    IF ThrowsOn(name, in)
    THEN [value |-> [threw |-> TRUE], left |-> start]
    ELSE Only({Only({[value |-> [score |-> Clamp(final.score),
                                 details |-> final.details \o final.issues,
                                 extra |-> IF name = "analyzeSecurity"
                                           THEN run.headers ELSE run.metrics],
                      left |-> final]
                     : final \in {Resume(start, run.state)}})
               : run \in {ChecksOf(name, in)}})

\* the same call through the analyzer itself
Direct(name, in) ==
    IF ThrowsOn(name, in) THEN [threw |-> TRUE]
    ELSE LET r == CASE name = "analyzePerformance" ->
                         analyzePerformance(in.responseTime, in.html, in.resources)
                    [] name = "analyzeSEO" -> analyzeSEO(in.html, in.parsedUrl)
                    [] name = "analyzeSecurity" ->
                         analyzeSecurity(in.parsedUrl, in.headers, in.html)
                    [] name = "analyzeMobile" -> analyzeMobile(in.html)
                    [] name = "analyzeAccessibility" -> analyzeAccessibility(in.html)
         IN [score |-> r.score, details |-> r.details,
             extra |-> IF name = "analyzeSecurity" THEN r.headers ELSE r.metrics]

NoRepeat ==
    [analyzer |-> "none", runs |-> 0, first |-> [threw |-> FALSE],
     last |-> [threw |-> FALSE], at |-> <<>>, left |-> FreshFindings]

InitRepeat == HandlerInit /\ call \in RepeatInputs /\ result = NoRepeat

\* one more call of the analyzer name with the arguments of the first call
CallAnalyzer(name) ==
    /\ result.analyzer \in {"none", name}
    /\ result.runs < MaxRuns
    /\ \E step \in {CallOutcome(name, call, StartFindings(result.left))} :
          result' = [analyzer |-> name,
                     runs |-> result.runs + 1,
                     first |-> IF result.runs = 0 THEN step.value ELSE result.first,
                     last |-> step.value,
                     at |-> Append(result.at, now),
                     left |-> step.left]
    /\ UNCHANGED <<handlerVars, call>>

\* time passes between two calls
ClockAdvances ==
    /\ now < MaxTicks * 1000
    /\ now' = now + 1000
    /\ UNCHANGED <<pc, req, res, locals, calls, inputs, call, result>>

NextRepeat ==
    \/ \E k \in 1..Len(AnalyzerNames) : CallAnalyzer(AnalyzerNames[k])
    \/ ClockAdvances

SpecRepeat == InitRepeat /\ [][NextRepeat]_vars

C12_HttpAtMost70 ==
    (result.analyzer = "analyzeSecurity" /\ ~result.threw
        /\ call.parsedUrl.protocol = "http:")
    => result.value.score <= 70

\* over http with every security header in place and a clean page the score
\* is exactly 70
C12_Witness ==
    /\ result.analyzer = "analyzeSecurity"
    /\ call.parsedUrl.protocol = "http:"
    /\ call.headers = FullHeaders
    /\ result.value.score = 70

\* the headers the security checks look for
SecurityHeaderNames ==
    {"strict-transport-security", "content-security-policy", "x-frame-options",
     "x-content-type-options", "referrer-policy", "permissions-policy",
     "feature-policy", "x-xss-protection"}

NoSecurityHeaders(headers) ==
    \A k \in 1..Len(headers) : headers[k][1] \notin SecurityHeaderNames

\* whether a finding whose message ends with suffix is among the details
HasFinding(details, suffix) ==
    \E k \in 1..Len(details) : EndsWith(details[k].message, suffix)

\* the deductions for the seven missing headers: HSTS, CSP, clickjacking,
\* X-Content-Type-Options, Referrer-Policy, Permissions-Policy, X-XSS-Protection
MissingHeaderDeductions == 12 + 10 + 8 + 6 + 4 + 4 + 2

\* the deductions of the checks of the text that reported something
HtmlDeductions(details) ==
    (IF HasFinding(details, "ressurser lastes over HTTP (mixed content)") THEN 5 ELSE 0)
    + (IF HasFinding(details, "skjema sender data over HTTP") THEN 8 ELSE 0)
    + (IF HasFinding(details, "E-postadresser er synlige i kildekoden (spam-risiko)")
       THEN 2 ELSE 0)

\* the deductions for the headers that tell what the server runs
DisclosureDeductions(details) ==
    (IF HasFinding(details, "Server-versjon er synlig i headers") THEN 2 ELSE 0)
    + (IF HasFinding(details, "X-Powered-By header eksponerer teknologi") THEN 2 ELSE 0)

\* the result of analyzeSecurity is at hand, for a response without any
\* security header
SecurityOfBareResponse ==
    /\ result.analyzer = "analyzeSecurity"
    /\ ~result.threw
    /\ NoSecurityHeaders(call.headers)

HasSeoEssentials(html) ==
    /\ \E k \in 1..Len(html) :
          TagIs(html[k], "html") /\ HasAttrValue(html[k], "lang", "no")
    /\ Cardinality({k \in 1..Len(html) : TagIs(html[k], "h1")}) = 1
    /\ Cardinality({k \in 1..Len(html) : TagIs(html[k], "/h1")}) = 1
    /\ \E k \in 1..(Len(html) - 2) :
          /\ TagIs(html[k], "title")
          /\ ~IsTag(html[k + 1])
          /\ Len(html[k + 1].text) = 55
          /\ html[k + 1].pad = 0
          /\ TagIs(html[k + 2], "/title")
    /\ \E k \in 1..Len(html) :
          /\ TagIs(html[k], "meta")
          /\ HasAttrValue(html[k], "name", "description")
          /\ \E a \in 1..Len(html[k].attrs) :
                html[k].attrs[a].n = "content" /\ Len(html[k].attrs[a].v) = 150
    /\ \E k \in 1..Len(html) :
          TagIs(html[k], "link") /\ HasAttrValue(html[k], "rel", "canonical")
    /\ \A p \in {"og:title", "og:description", "og:image", "og:url"} :
          \E k \in 1..Len(html) :
              TagIs(html[k], "meta") /\ HasAttrValue(html[k], "property", p)

\* the findings of the details that carry the severity sev
WithSeverity(details, sev) ==
    SelectSeq(details, LAMBDA d : "severity" \in DOMAIN d /\ d.severity = sev)

\* the result of analyzeSEO is at hand, for a page with the essentials
SeoOfEssentials ==
    /\ result.analyzer = "analyzeSEO"
    /\ ~result.threw
    /\ HasSeoEssentials(call.html)

\* what the informational findings of the details deduct
InfoDeductions(details) ==
    (IF HasFinding(details, "Mangler Twitter Card-tags") THEN 4 ELSE 0)
    + (IF HasFinding(details, "Mangler strukturert data (Schema.org)") THEN 5 ELSE 0)
    + (IF HasFinding(details, "Mangler H2-overskrifter for struktur") THEN 3 ELSE 0)
    + (IF HasFinding(details, "Mangler sprakdeklarasjon (lang-attributt)") THEN 3 ELSE 0)
    + (IF HasFinding(details, "(bor ha flere for bedre SEO)") THEN 2 ELSE 0)
    + (IF HasFinding(details, "/4)") THEN 4 ELSE 0)
    + (IF HasFinding(details, "(kan bli avkortet)") THEN 3 ELSE 0)

C15_FindingsHaveSeverity ==
    (result.analyzer \in {AnalyzerNames[k] : k \in 1..Len(AnalyzerNames)}
        /\ ~result.threw)
    => \A k \in 1..Len(result.value.details) :
          /\ "message" \in DOMAIN result.value.details[k]
          /\ "severity" \in DOMAIN result.value.details[k]
          /\ result.value.details[k].severity
                \in {"success", "info", "warning", "critical"}

\* C16: the details an analyzer returns are its findings in the order in
\* which its checks produced them
C16_InsertionOrder ==
    (result.analyzer \in {AnalyzerNames[k] : k \in 1..Len(AnalyzerNames)}
        /\ ~result.threw)
    => result.value.details = ChecksOf(result.analyzer, call).state.pushed

\* the banding of a score: 90 and more green, 70 and more yellow, 50 and
\* more orange, red below
Band(score) ==
    CASE score >= 90 -> "green"
      [] score >= 70 /\ score < 90 -> "yellow"
      [] score >= 50 /\ score < 70 -> "orange"
      [] score < 50 -> "red"

\* every category of the report carries the band of its score
CategoriesAreBanded(report) ==
    \A c \in CategoryNames :
        report.categories[c].status = Band(report.categories[c].score)

\* C17: the report carries the band of its score for each of the five
\* categories and the band of totalScore for the total
C17_StatusBanding ==
    \A i \in Invocations :
        (pc[i] = "done" /\ res[i].statusCode = 200 /\ DOMAIN res[i].body = {"json"})
        => /\ CategoriesAreBanded(res[i].body.json)
           /\ "status" \in DOMAIN res[i].body.json
           /\ res[i].body.json.status = Band(res[i].body.json.totalScore)

\* the src of a script tag, Null when it has none
SrcOf(tok) ==
    LET hits == {a \in 1..Len(tok.attrs) : tok.attrs[a].n = "src" /\ tok.attrs[a].q} IN
    IF hits = {} THEN Null ELSE tok.attrs[CHOOSE a \in hits : TRUE].v

\* the script tags of html with a src and with neither async nor defer
BlockingScriptTags(html) ==
    SelectSeq(html, LAMBDA tok :
        /\ TagIs(tok, "script")
        /\ SrcOf(tok) # Null
        /\ \A a \in 1..Len(tok.attrs) : tok.attrs[a].n \notin {"async", "defer"})

\* C18: every script tag with a src and neither async nor defer is extracted
\* with that src and as not inline, analyzePerformance counts these tags in
\* blockingScripts, and it reports them as render-blocking when they are
\* more than 2, as critical when they are more than 5
C18_BlockingScripts ==
    (result.analyzer = "analyzePerformance" /\ ~result.threw
        /\ call.resources = extractResources(call.html))
    => LET blocking == BlockingScriptTags(call.html) IN
       /\ \A k \in 1..Len(blocking) :
             \E j \in 1..Len(call.resources.scripts) :
                 /\ call.resources.scripts[j].src = SrcOf(blocking[k])
                 /\ ~call.resources.scripts[j].isInline
       /\ result.value.metrics.blockingScripts = Len(blocking)
       /\ Len(blocking) > 5
          => HasFinding(result.value.details,
                        "render-blokkerende scripts (bruk async/defer)")
       /\ (Len(blocking) > 2 /\ Len(blocking) <= 5)
          => HasFinding(result.value.details, "render-blokkerende scripts")

\* the value of the attribute name of a tag, Null when it has none
ValueOf(tok, name) ==
    LET hits == {a \in 1..Len(tok.attrs) : tok.attrs[a].n = name /\ tok.attrs[a].q} IN
    IF hits = {} THEN Null ELSE tok.attrs[CHOOSE a \in hits : TRUE].v

\* the inputs of html, types hidden, submit, button and image left out, that
\* have neither a label for their id nor an aria-label or aria-labelledby
UnlabeledInputs(html) ==
    SelectSeq(html, LAMBDA tok :
        /\ TagIs(tok, "input")
        /\ ValueOf(tok, "type") \notin {"hidden", "submit", "button", "image"}
        /\ ~\E k \in 1..Len(html) :
               /\ TagIs(html[k], "label")
               /\ ValueOf(tok, "id") # Null
               /\ ValueOf(html[k], "for") = ValueOf(tok, "id")
        /\ ValueOf(tok, "aria-label") = Null
        /\ ValueOf(tok, "aria-labelledby") = Null)

\* C19: analyzeAccessibility reports, and deducts for, exactly the inputs
\* that have neither a label nor an aria attribute of their own
C19_UnlabeledInputs ==
    (result.analyzer = "analyzeAccessibility" /\ ~result.threw)
    => LET U == Len(UnlabeledInputs(call.html)) IN
       IF U > 0
       THEN HasFinding(result.value.details,
                       ToString(U) \o " skjemafelt mangler tilknyttet label")
       ELSE ~HasFinding(result.value.details, "skjemafelt mangler tilknyttet label")

\* the pairs of heading levels present in html, with no present level between
\* them, that lie more than one level apart
HeadingSkips(html) ==
    LET present == {i \in 1..6 : HeadingCount(html, i) > 0} IN
    {pair \in present \X present :
        /\ pair[2] > pair[1] + 1
        /\ \A c \in present : ~(pair[1] < c /\ c < pair[2])}

\* the findings of the details about a skipped heading level
SkipFindings(details) ==
    SelectSeq(details, LAMBDA d : StartsWith(d.message, "Overskriftsniva hoppes over"))

\* the number a finding of the details puts in front of suffix, 0 without one
CountIn(details, suffix, most) ==
    LET hits == {n \in 1..most : HasFinding(details, ToString(n) \o suffix)
                                 /\ \E k \in 1..Len(details) :
                                       details[k].message = ToString(n) \o suffix} IN
    IF hits = {} THEN 0 ELSE CHOOSE n \in hits : TRUE

\* what the findings of analyzeAccessibility other than those of the heading
\* hierarchy deduct
OtherAccessibilityDeductions(details, most) ==
    (IF HasFinding(details, "Mangler lang-attributt pa html-elementet") THEN 8 ELSE 0)
    + Min(15, 3 * CountIn(details, " bilder mangler alt-attributt", most))
    + Min(12, 3 * CountIn(details, " skjemafelt mangler tilknyttet label", most))
    + (IF HasFinding(details, "Fa ARIA landmarks (main, nav, header, footer)")
       THEN 6 ELSE 0)
    + (IF HasFinding(details, "Mangler skip-link for tastaturnavigasjon") THEN 5 ELSE 0)
    + (IF HasFinding(details, " lenker har generisk tekst (\"klikk her\", \"les mer\")")
       THEN 5 ELSE 0)
    + (IF HasFinding(details, "Focus-indikatorer kan vaere fjernet uten erstatning")
       THEN 5 ELSE 0)
    + (IF HasFinding(details, "Mulig darlig fargekontrast (veldig lyse farger)")
       THEN 3 ELSE 0)
    + (IF HasFinding(details, "Tabeller mangler header-celler (th)") THEN 5 ELSE 0)
    + (IF HasFinding(details, "Klikkbare div/span-elementer bor vaere buttons eller lenker")
       THEN 4 ELSE 0)
    + (IF HasFinding(details, "Positiv tabindex kan forstyrre naturlig tab-rekkefolge")
       THEN 3 ELSE 0)

\* C20: analyzeAccessibility reports a missing h1 and deducts 5 for it exactly
\* when html has no h1; it reports one skipped heading level, the first one
\* from level 1 up, and deducts 3 for it when html skips one or more levels,
\* and reports none and deducts nothing when it skips none
C20_HeadingHierarchy ==
    (result.analyzer = "analyzeAccessibility" /\ ~result.threw)
    => LET html == call.html
           details == result.value.details
           noH1 == HeadingCount(html, 1) = 0
           skips == HeadingSkips(html)
       IN /\ Len(SelectSeq(details, LAMBDA d : d.message = "Mangler H1-overskrift"))
                = (IF noH1 THEN 1 ELSE 0)
          /\ Len(SkipFindings(details)) = (IF skips = {} THEN 0 ELSE 1)
          /\ skips # {}
             => LET first == CHOOSE s \in skips : \A t \in skips : s[1] <= t[1] IN
                SkipFindings(details)[1] =
                    [severity |-> "info",
                     message |-> "Overskriftsniva hoppes over (H" \o ToString(first[1])
                                 \o " til H" \o ToString(first[2]) \o ")"]
          /\ result.value.score =
                Max(0, 100 - (OtherAccessibilityDeductions(details, Len(html))
                              + (IF noH1 THEN 5 ELSE 0)
                              + (IF skips = {} THEN 0 ELSE 3)))

\* a page without an h1 that skips two levels lost 5 and 3, and got one
\* finding for the skip from h2 to h4
C20_Witness ==
    /\ result.analyzer = "analyzeAccessibility"
    /\ ~result.threw
    /\ HeadingCount(call.html, 1) = 0
    /\ Cardinality(HeadingSkips(call.html)) = 2
    /\ Len(SkipFindings(result.value.details)) = 1
    /\ HasFinding(result.value.details, "(H2 til H4)")
    /\ result.value.score
          = 100 - 5 - 3 - OtherAccessibilityDeductions(result.value.details,
                                                       Len(call.html))

====
